---------------------------- MODULE Spec2Model ----------------------------
(***************************************************************************)
(* Scoring, ranking and validation of "underserved market" candidates:     *)
(*   synthesize_markets.py  identify_top_underserved_markets               *)
(*   validate_markets.py    validate_with_databank_indicators,             *)
(*                          validate_market_profiles                       *)
(*                                                                         *)
(* Numbers.  The scripts compute with Python numbers (ints and floats).    *)
(* The model computes with exact fixed-point rationals: a score x is the   *)
(* integer x * Unit, Unit = 300, which represents every tenth, hundredth   *)
(* and third that the scoring formulas produce from the modelled inputs.   *)
(* Binary rounding of doubles (0.78 * 5 is 3.9000000000000004 as a double) *)
(* is below the resolution of the model.                                   *)
(*                                                                         *)
(* Text.  Market names, sector names and table keys are strings; lower(),  *)
(* split() and the substring test are computed character by character.     *)
(* A dict is a function whose DOMAIN is its key set; an insertion-ordered  *)
(* dict that the code iterates is a sequence of entries.                   *)
(***************************************************************************)
EXTENDS Integers, Sequences, FiniteSets, TLC

VARIABLES
    stage,              \* the function or script being run
    pc,                 \* position inside the script's function
    combined_data,      \* synthesize: argument of identify_top_underserved_markets
    market_scores,      \* synthesize: dict name -> candidate, in insertion order
    market_list,        \* synthesize: the returned (ranked) list; enrich: argument
    market_profiles,    \* enrich: the list built and returned
    profiles,           \* validate: argument of validate_market_profiles
    validation_data,    \* validate: ordered reference table (key, record)
    validated_profiles, \* validate: the list built and returned
    written,            \* the files of ../results written so far
    present,            \* main(): the files on disk when the script starts
    files,              \* the files on disk now: name -> content
    first_run,          \* main(): what a first run left, once the script runs again
    environment         \* main(): what the surroundings of every run do

vars == <<stage, pc, combined_data, market_scores, market_list, market_profiles,
          profiles, validation_data, validated_profiles, written, present,
          files, first_run, environment>>

---------------------------------------------------------------------------
(* Bounds of the model *)

MaxUnderserved == 2     \* records in underserved_markets.markets
MaxMentions == 2        \* records in market_mentions.market_mentions
MaxProfiles == 3        \* profiles handed to validate_market_profiles
MaxBeside == 1          \* records per section where another part of the input varies
MaxSparse == 2          \* records per section when optional fields are missing
MaxRanked == 11         \* candidates in the ranked list handed to the enricher
MaxLoaded == 2          \* profiles in the file the validation stage loads

---------------------------------------------------------------------------
(* Numbers: fixed point with Unit parts per 1 *)

Unit == 3 * 100
Num(n) == n * Unit
Tenths(n) == n * (Unit \div 10)
Hundredths(n) == n * (Unit \div 100)

Min(a, b) == IF a <= b THEN a ELSE b

---------------------------------------------------------------------------
(* Text: str.lower(), str.split(), the "in" test on strings and lists *)

UpperCase == "ABCDEFGHIJKLMNOPQRSTUVWXYZ"
LowerCase == "abcdefghijklmnopqrstuvwxyz"

\* the lower-case letter of every upper-case letter
ToLower ==
    [c \in {SubSeq(UpperCase, i, i) : i \in 1..Len(UpperCase)} |->
        LET i == CHOOSE j \in 1..Len(UpperCase) : SubSeq(UpperCase, j, j) = c
        IN  SubSeq(LowerCase, i, i)]

LowerChar(c) == IF c \in DOMAIN ToLower THEN ToLower[c] ELSE c

RECURSIVE LowerFrom(_, _)
LowerFrom(s, i) ==
    IF i > Len(s) THEN ""
    ELSE LowerChar(SubSeq(s, i, i)) \o LowerFrom(s, i + 1)

\* s.lower()
lower(s) == LowerFrom(s, 1)

\* s.split(): the maximal runs of non-blank characters from position i on,
\* where the run being read started at position start (0: between words)
RECURSIVE SplitFrom(_, _, _)
SplitFrom(s, i, start) ==
    IF i > Len(s)
    THEN IF start = 0 THEN <<>> ELSE <<SubSeq(s, start, Len(s))>>
    ELSE IF SubSeq(s, i, i) = " "
         THEN IF start = 0 THEN SplitFrom(s, i + 1, 0)
              ELSE <<SubSeq(s, start, i - 1)>> \o SplitFrom(s, i + 1, 0)
         ELSE SplitFrom(s, i + 1, IF start = 0 THEN i ELSE start)

split(s) == SplitFrom(s, 1, 0)

\* sub in text, for strings
InString(sub, text) ==
    \E i \in 1..(Len(text) - Len(sub) + 1) : SubSeq(text, i, i + Len(sub) - 1) = sub

\* x in list
InList(x, list) == \E i \in 1..Len(list) : list[i] = x

\* any(word in market_words for word in words)
AnyWordIn(words, market_words) ==
    \E i \in 1..Len(words) : InList(words[i], market_words)

---------------------------------------------------------------------------
(* Dicts *)

EmptyDict == [k \in {} |-> 0]

\* d.get(key, default)
Get(d, key, default) == IF key \in DOMAIN d THEN d[key] ELSE default


\* All sequences over S of length at most n
SeqUpTo(S, n) == UNION {[1..k -> S] : k \in 0..n}

---------------------------------------------------------------------------
(* synthesize_markets.py: inputs of identify_top_underserved_markets *)

UnderservedRecords ==
    { [market |-> "Rural Healthcare Technology", gap_score |-> Tenths(87),
       growth_potential |-> "High", barriers |-> <<"Infrastructure">>],
      [market |-> "Rural Healthcare Technology", gap_score |-> Tenths(79),
       growth_potential |-> "Medium", barriers |-> <<>>],
      [market |-> "Elderly-focused Technology", gap_score |-> Tenths(87),
       growth_potential |-> "High", barriers |-> <<"Adoption Rate", "Usability">>],
      [market |-> "", gap_score |-> Tenths(82),
       growth_potential |-> "Low", barriers |-> <<"Cost">>] }

MentionRecords ==
    { [market |-> "Rural Healthcare Technology", mention_count |-> 12,
       sentiment_score |-> Hundredths(78)],
      [market |-> "Rural Healthcare Technology", mention_count |-> 30,
       sentiment_score |-> Hundredths(100)],
      [market |-> "Senior-Focused Technology", mention_count |-> 45,
       sentiment_score |-> Hundredths(-50)],
      [market |-> "Elderly-focused Technology", mention_count |-> 29,
       sentiment_score |-> Hundredths(120)],
      [market |-> "", mention_count |-> 18,
       sentiment_score |-> Hundredths(82)] }

\* the economic_growth section: no lists, or the lists of the simulated indicators
EconomicGrowthSections ==
    { [growth_sectors |-> <<>>, hot_investment_areas |-> <<>>],
      [growth_sectors |->
         <<"Technology", "Healthcare", "Renewable Energy", "E-commerce">>,
       hot_investment_areas |->
         <<"Green Technology", "Digital Infrastructure", "Biotechnology",
           "Space Technology">>] }

\* emerging technologies and trending sectors: none, or some of each
TrendSections ==
    { [technologies |-> <<>>, top_sectors |-> <<>>],
      [technologies |-> << [technology |-> "Telehealth Platforms"],
                           [technology |-> "Rural Broadband"],
                           [technology |-> "AI-powered Education"] >>,
       top_sectors |-> <<"healthcare", "TECHNOLOGY", "Education">>] }

CombinedData(markets, mentions, growth, trends) ==
    [ underserved_markets |-> [markets |-> markets],
      market_mentions |-> [market_mentions |-> mentions],
      economic_growth |-> growth,
      emerging_technologies |-> [technologies |-> trends.technologies],
      website_trends |-> [top_sectors |-> trends.top_sectors] ]

CombinedDataInputs ==
    { CombinedData(u, m, g, t) :
        u \in SeqUpTo(UnderservedRecords, MaxUnderserved),
        m \in SeqUpTo(MentionRecords, MaxMentions),
        g \in EconomicGrowthSections, t \in TrendSections }

\* combined_data.get(section, {}).get(key, [])
Section(data, section, key) == Get(Get(data, section, EmptyDict), key, <<>>)

underserved_markets(data) == Section(data, "underserved_markets", "markets")
market_mentions(data) == Section(data, "market_mentions", "market_mentions")
growth_sectors(data) == Section(data, "economic_growth", "growth_sectors")
hot_investment_areas(data) == Section(data, "economic_growth", "hot_investment_areas")
emerging_tech(data) == Section(data, "emerging_technologies", "technologies")
trending_sectors(data) == Section(data, "website_trends", "top_sectors")

\* A JSON string in a place where the code expects a dict
PyStr(s) == [py_type |-> "str", value |-> s]

\* the item has a .get method: it is a dict, not a string
IsDict(item) == "py_type" \notin DOMAIN item

AllDicts(items) == \A i \in 1..Len(items) : IsDict(items[i])

\* lists in which more than three entries share a word with one market name,
\* next to entries that only hold a part of a word ("Tech") or differ in case
RichGrowthSection ==
    [growth_sectors |->
        <<"Technology", "Healthcare", "Rural Development", "Health Technology",
          "Tech">>,
     hot_investment_areas |-> <<"Green Technology", "Rural Infrastructure">>]

RichTrendSection ==
    [technologies |-> << [technology |-> "Rural Broadband"],
                         [technology |-> "Healthcare Robotics"],
                         [technology |-> "Wearable Technology"],
                         [technology |-> "Rural Healthcare Kiosks"],
                         [technology |-> "Telehealth Platforms"] >>,
     top_sectors |-> <<"healthcare", "TECHNOLOGY", "rural healthcare",
                       "Health Technology", "Tech">>]

\* records whose growth_potential is 'Medium', 'High', 'Low', another string
\* or missing, several of them for one market name
GrowthPotentialRecords ==
    { [market |-> "Rural Healthcare Technology", gap_score |-> Tenths(87),
       growth_potential |-> "Medium", barriers |-> <<"Infrastructure">>],
      [market |-> "Rural Healthcare Technology", gap_score |-> Tenths(79),
       growth_potential |-> "high", barriers |-> <<>>],
      [market |-> "Rural Healthcare Technology", gap_score |-> Tenths(82),
       growth_potential |-> "Low", barriers |-> <<"Cost">>],
      [market |-> "Elderly-focused Technology", gap_score |-> Tenths(87),
       barriers |-> <<"Usability">>],
      [market |-> "Elderly-focused Technology", gap_score |-> Tenths(80),
       growth_potential |-> "High", barriers |-> <<"Adoption Rate">>] }

GrowthPotentialInputs ==
    { CombinedData(u, m, g, t) :
        u \in SeqUpTo(GrowthPotentialRecords, MaxSparse),
        m \in SeqUpTo(MentionRecords, MaxBeside),
        g \in EconomicGrowthSections, t \in TrendSections }

\* a list in which more than three investment areas share a word with one
\* market name, next to "Tech", a part of a word
InvestmentGrowthSection ==
    [growth_sectors |-> <<"Healthcare">>,
     hot_investment_areas |->
        <<"Rural Infrastructure", "Green Technology", "Healthcare Robotics",
          "rural broadband", "Health Technology", "Tech">>]

InvestmentInputs ==
    { CombinedData(u, m, InvestmentGrowthSection, t) :
        u \in SeqUpTo(UnderservedRecords, MaxBeside),
        m \in SeqUpTo(MentionRecords, MaxBeside),
        t \in TrendSections }

RichInputs ==
    { CombinedData(u, m, RichGrowthSection, RichTrendSection) :
        u \in SeqUpTo(UnderservedRecords, MaxBeside),
        m \in SeqUpTo(MentionRecords, MaxBeside) }

\* A section value that is not a list of records, given as the items that
\* "for item in value" yields: a dict keyed by market name yields its keys,
\* a string yields its characters
NotListsOfRecords ==
    { << PyStr("Rural Healthcare Technology") >>,
      << PyStr("n"), PyStr("a") >> }

\* combined data in which one of the two record sections is not a list of records
MalformedInputs ==
    { CombinedData(u, m, g, t) :
        u \in NotListsOfRecords, m \in SeqUpTo(MentionRecords, MaxBeside),
        g \in EconomicGrowthSections, t \in TrendSections }
    \cup
    { CombinedData(u, m, g, t) :
        u \in SeqUpTo(UnderservedRecords, MaxBeside), m \in NotListsOfRecords,
        g \in EconomicGrowthSections, t \in TrendSections }

\* records that lack optional fields, next to a complete one
SparseUnderserved ==
    { [market |-> "Rural Healthcare Technology"],
      [market |-> "Elderly-focused Technology", gap_score |-> Tenths(87),
       growth_potential |-> "High", barriers |-> <<"Adoption Rate", "Usability">>] }

SparseMentions ==
    { [market |-> "Rural Healthcare Technology"],
      [market |-> "Senior-Focused Technology", mention_count |-> 45],
      [market |-> "Elderly-focused Technology", sentiment_score |-> Hundredths(120)] }

\* a technology entry without 'technology' next to one with it
SparseTrends ==
    [technologies |-> << [market_readiness |-> 7],
                         [technology |-> "Rural Broadband"] >>,
     top_sectors |-> <<"healthcare">>]

\* the dict d without the keys in absent
Without(d, absent) == [k \in DOMAIN d \ absent |-> d[k]]

\* the sections that a combined analysis may lack
AbsentSections ==
    { {}, {"underserved_markets"}, {"market_mentions"},
      {"economic_growth", "emerging_technologies", "website_trends"},
      {"underserved_markets", "market_mentions"},
      {"underserved_markets", "market_mentions", "economic_growth",
       "emerging_technologies", "website_trends"} }

\* combined data with records lacking optional fields and with sections absent
SparseInputs ==
    { Without(CombinedData(u, m, g, SparseTrends), absent) :
        u \in SeqUpTo(SparseUnderserved, MaxSparse),
        m \in SeqUpTo(SparseMentions, MaxSparse),
        g \in EconomicGrowthSections, absent \in AbsentSections }

---------------------------------------------------------------------------
(* synthesize_markets.py: the score map *)

\* market_name in market_scores
HasMarket(scores, market_name) ==
    \E k \in 1..Len(scores) : scores[k].name = market_name

\* position of market_scores[market_name] in insertion order
MarketIndex(scores, market_name) ==
    CHOOSE k \in 1..Len(scores) : scores[k].name = market_name

NewCandidate(market_name) ==
    [ name |-> market_name, total_score |-> 0, gap_score |-> 0,
      mention_score |-> 0, sentiment_score |-> 0, growth_alignment |-> 0,
      tech_alignment |-> 0, sector_alignment |-> 0, barriers |-> <<>>,
      growth_potential |-> "", sources |-> <<>> ]

\* Faulty variant: a candidate is created for every record
EnsureMarketAlways(scores, market_name) ==
    Append(scores, NewCandidate(market_name))

\* if market_name not in market_scores: market_scores[market_name] = {...}
EnsureMarket(scores, market_name) ==
    IF HasMarket(scores, market_name) THEN scores
    ELSE Append(scores, NewCandidate(market_name))

---------------------------------------------------------------------------
(* synthesize_markets.py: scoring passes of identify_top_underserved_markets *)

HighBonus == 3
MentionDivisor == 3
MentionCap == 10
SentimentFactor == 5
SentimentCap == 5
AlignmentCap == 3

\* Faulty variant: 'Medium' adds a whole point
GrowthPotentialBonusWholePoints(growth_potential) ==
    IF growth_potential = "High" THEN Num(HighBonus)
    ELSE IF growth_potential = "Medium" THEN Num(1)
    ELSE 0

\* Faulty variant: the comparison ignores case
GrowthPotentialBonusIgnoringCase(growth_potential) ==
    IF lower(growth_potential) = "high" THEN Num(HighBonus)
    ELSE IF lower(growth_potential) = "medium" THEN Tenths(15)
    ELSE 0

\* +3 for 'High', +1.5 for 'Medium', nothing otherwise
GrowthPotentialBonus(growth_potential) ==
    IF growth_potential = "High" THEN Num(HighBonus)
    ELSE IF growth_potential = "Medium" THEN Tenths(15)
    ELSE 0

\* one iteration of "for market in underserved_markets"
ScoreUnderservedRecord(scores, market) ==
    LET market_name == Get(market, "market", "") IN
    IF market_name = "" THEN scores
    ELSE LET created == EnsureMarket(scores, market_name)
             k == MarketIndex(created, market_name)
             gap_score == Get(market, "gap_score", 0)
             growth_potential == Get(market, "growth_potential", "")
         IN  [created EXCEPT ![k] =
                [@ EXCEPT !.gap_score = gap_score,
                          !.total_score = @ + gap_score
                                            + GrowthPotentialBonus(growth_potential),
                          !.growth_potential = growth_potential,
                          !.barriers = Get(market, "barriers", <<>>),
                          !.sources = Append(@, "economic_indicators")]]

RECURSIVE ScoreUnderservedFrom(_, _, _)
ScoreUnderservedFrom(scores, records, i) ==
    IF i > Len(records) THEN scores
    ELSE ScoreUnderservedFrom(ScoreUnderservedRecord(scores, records[i]), records, i + 1)

\* Faulty variant: the cap of 10 is left out
MentionScoreUncapped(mention_count) == Num(mention_count) \div MentionDivisor

\* min(10, mention_count / 3)
MentionScore(mention_count) ==
    Min(Num(MentionCap), Num(mention_count) \div MentionDivisor)

\* Faulty variant: the score is clamped to the 0-5 scale at both ends
SentimentScoreClamped(sentiment) ==
    IF sentiment < 0 THEN 0 ELSE Min(Num(SentimentCap), sentiment * SentimentFactor)

\* min(5, sentiment * 5)
SentimentScore(sentiment) ==
    Min(Num(SentimentCap), sentiment * SentimentFactor)

\* Faulty variant: total_score is assigned, not added to
ScoreMentionRecordOverwriting(scores, mention) ==
    LET market_name == Get(mention, "market", "") IN
    IF market_name = "" THEN scores
    ELSE LET created == EnsureMarket(scores, market_name)
             k == MarketIndex(created, market_name)
             mention_score == Min(Num(MentionCap),
                                  Num(Get(mention, "mention_count", 0)) \div MentionDivisor)
             sentiment_score == Min(Num(SentimentCap),
                                    Get(mention, "sentiment_score", 0) * SentimentFactor)
         IN  [created EXCEPT ![k] =
                [@ EXCEPT !.mention_score = mention_score,
                          !.sentiment_score = sentiment_score,
                          !.total_score = mention_score + sentiment_score,
                          !.sources = IF InList("web_scraping", @) THEN @
                                      ELSE Append(@, "web_scraping")]]

\* one iteration of "for mention in market_mentions"
ScoreMentionRecord(scores, mention) ==
    LET market_name == Get(mention, "market", "") IN
    IF market_name = "" THEN scores
    ELSE LET created == EnsureMarket(scores, market_name)
             k == MarketIndex(created, market_name)
             mention_score == MentionScore(Get(mention, "mention_count", 0))
             sentiment_score == SentimentScore(Get(mention, "sentiment_score", 0))
         IN  [created EXCEPT ![k] =
                [@ EXCEPT !.mention_score = mention_score,
                          !.sentiment_score = sentiment_score,
                          !.total_score = @ + mention_score + sentiment_score,
                          !.sources = IF InList("web_scraping", @) THEN @
                                      ELSE Append(@, "web_scraping")]]

RECURSIVE ScoreMentionsFrom(_, _, _)
ScoreMentionsFrom(scores, records, i) ==
    IF i > Len(records) THEN scores
    ELSE ScoreMentionsFrom(ScoreMentionRecord(scores, records[i]), records, i + 1)

\* tech.get('technology', '') of every entry
TechNames(tech_list) ==
    [i \in 1..Len(tech_list) |-> Get(tech_list[i], "technology", "")]

\* the elements of a list
Elements(list) == {list[i] : i \in 1..Len(list)}

\* the names that occur in the modelled inputs
InputTexts ==
    {r.market : r \in UnderservedRecords \cup MentionRecords}
        \cup UNION {Elements(g.growth_sectors) \cup Elements(g.hot_investment_areas) :
                        g \in EconomicGrowthSections
                                \cup {RichGrowthSection, InvestmentGrowthSection}}
        \cup UNION {Elements(TechNames(t.technologies)) \cup Elements(t.top_sectors) :
                        t \in TrendSections \cup {SparseTrends, RichTrendSection}}

\* name.lower().split(); for the names of the modelled inputs it is computed
\* once and looked up afterwards
LowerWordsOf == [name \in InputTexts |-> split(lower(name))]

LowerWords(name) ==
    IF name \in DOMAIN LowerWordsOf THEN LowerWordsOf[name] ELSE split(lower(name))

\* Faulty variant: a word of the entry need only occur inside a market word
NameMatchesInsideWord(name, market_words) ==
    \E i \in 1..Len(LowerWords(name)), j \in 1..Len(market_words) :
        InString(LowerWords(name)[i], market_words[j])

\* any(word in market_words for word in <name>.lower().split())
NameMatches(name, market_words) == AnyWordIn(LowerWords(name), market_words)

\* the number of entries of list that share a word with the market name
MatchCount(list, market_words) ==
    Cardinality({i \in 1..Len(list) : NameMatches(list[i], market_words)})

\* Faulty variant: the investment-area bonus is capped like the alignments
AlignMarketInvestmentCapped(market_data, data) ==
    LET market_words == LowerWords(market_data.name)
        growth_alignment ==
            Min(AlignmentCap, MatchCount(growth_sectors(data), market_words))
        investment ==
            Min(AlignmentCap, MatchCount(hot_investment_areas(data), market_words))
        tech_alignment ==
            Min(AlignmentCap, MatchCount(TechNames(emerging_tech(data)), market_words))
        sector_alignment ==
            Min(AlignmentCap, MatchCount(trending_sectors(data), market_words))
    IN  [market_data EXCEPT
            !.growth_alignment = Num(growth_alignment),
            !.tech_alignment = Num(tech_alignment),
            !.sector_alignment = Num(sector_alignment),
            !.total_score = @ + Num(growth_alignment) + Num(investment)
                              + Num(tech_alignment) + Num(sector_alignment)]

\* one iteration of "for market_name, market_data in market_scores.items()"
AlignMarket(market_data, data) ==
    LET market_words == LowerWords(market_data.name)
        growth_alignment ==
            Min(AlignmentCap, MatchCount(growth_sectors(data), market_words))
        investment == MatchCount(hot_investment_areas(data), market_words)
        tech_alignment ==
            Min(AlignmentCap, MatchCount(TechNames(emerging_tech(data)), market_words))
        sector_alignment ==
            Min(AlignmentCap, MatchCount(trending_sectors(data), market_words))
    IN  [market_data EXCEPT
            !.growth_alignment = Num(growth_alignment),
            !.tech_alignment = Num(tech_alignment),
            !.sector_alignment = Num(sector_alignment),
            !.total_score = @ + Num(growth_alignment) + Num(investment)
                              + Num(tech_alignment) + Num(sector_alignment)]

AlignMarkets(scores, data) ==
    [k \in 1..Len(scores) |-> AlignMarket(scores[k], data)]

---------------------------------------------------------------------------
(* synthesize_markets.py: market_list.sort(key=total_score, reverse=True) *)

\* Faulty variant: an entry goes before the entries whose key equals its own
InsertBeforeTies(sorted, market) ==
    LET k == Cardinality({i \in 1..Len(sorted) :
                            sorted[i].total_score > market.total_score})
    IN  SubSeq(sorted, 1, k) \o <<market>> \o SubSeq(sorted, k + 1, Len(sorted))

\* list.sort is stable, also with reverse=True: an entry goes after every
\* entry whose key is greater than or equal to its own
InsertByTotalScore(sorted, market) ==
    LET k == Cardinality({i \in 1..Len(sorted) :
                            sorted[i].total_score >= market.total_score})
    IN  SubSeq(sorted, 1, k) \o <<market>> \o SubSeq(sorted, k + 1, Len(sorted))

RECURSIVE SortByTotalScore(_, _)
SortByTotalScore(list, n) ==
    IF n = 0 THEN <<>>
    ELSE InsertByTotalScore(SortByTotalScore(list, n - 1), list[n])

RankedMarkets(scores) == SortByTotalScore(scores, Len(scores))

---------------------------------------------------------------------------
(* validate_markets.py: validate_with_databank_indicators *)

\* the simulated validation dataset, in the dict's insertion order
SimulatedValidationData ==
    <<
      [ key |-> "Rural Healthcare Technology",
        data |-> [ market_size_usd_billions |-> Tenths(185), cagr_percent |-> Tenths(168),
                   validation_score |-> Tenths(87),
                   supporting_indicators |->
                     <<"Healthcare accessibility index in rural areas",
                       "Digital infrastructure penetration in rural communities",
                       "Healthcare spending per capita in rural vs urban areas">>,
                   validation_sources |->
                     <<"World Health Organization Rural Health Statistics",
                       "International Telecommunication Union Reports",
                       "Healthcare Access and Quality Index">> ] ],
      [ key |-> "Elderly-focused Technology",
        data |-> [ market_size_usd_billions |-> Tenths(253), cagr_percent |-> Tenths(142),
                   validation_score |-> Tenths(84),
                   supporting_indicators |->
                     <<"Aging population growth rate",
                       "Technology adoption rates among 65+ demographic",
                       "Healthcare expenditure for elderly care">>,
                   validation_sources |->
                     <<"UN World Population Prospects",
                       "Consumer Technology Association Senior Reports",
                       "OECD Health Statistics">> ] ],
      [ key |-> "Mental Health Technology",
        data |-> [ market_size_usd_billions |-> Tenths(219), cagr_percent |-> Tenths(196),
                   validation_score |-> Tenths(91),
                   supporting_indicators |->
                     <<"Mental health disorder prevalence",
                       "Mental health professional shortage areas",
                       "Digital mental health service adoption rates">>,
                   validation_sources |->
                     <<"WHO Mental Health Atlas",
                       "National Institute of Mental Health Statistics",
                       "Digital Health Market Analysis Reports">> ] ],
      [ key |-> "Sustainable Packaging Solutions",
        data |-> [ market_size_usd_billions |-> Tenths(342), cagr_percent |-> Tenths(158),
                   validation_score |-> Tenths(85),
                   supporting_indicators |->
                     <<"Plastic waste generation per capita",
                       "Corporate sustainability commitments",
                       "Consumer preference for sustainable packaging">>,
                   validation_sources |->
                     <<"UN Environment Programme Waste Statistics",
                       "Ellen MacArthur Foundation Circular Economy Reports",
                       "Consumer Packaging Preference Surveys">> ] ],
      [ key |-> "Middle-Income Housing",
        data |-> [ market_size_usd_billions |-> Tenths(427), cagr_percent |-> Tenths(93),
                   validation_score |-> Tenths(79),
                   supporting_indicators |->
                     <<"Housing affordability index",
                       "Middle-income household formation rate",
                       "Housing supply gap in middle market">>,
                   validation_sources |->
                     <<"World Bank Housing Finance Data",
                       "National Housing Statistics",
                       "Urban Development Research Reports">> ] ],
      [ key |-> "Educational Technology for Vocational Training",
        data |-> [ market_size_usd_billions |-> Tenths(168), cagr_percent |-> Tenths(172),
                   validation_score |-> Tenths(82),
                   supporting_indicators |->
                     <<"Skills gap in technical occupations",
                       "Vocational education enrollment trends",
                       "Employer investment in workforce training">>,
                   validation_sources |->
                     <<"International Labour Organization Skills Reports",
                       "UNESCO Education Statistics",
                       "Industry Workforce Development Surveys">> ] ],
      [ key |-> "Affordable Childcare Solutions",
        data |-> [ market_size_usd_billions |-> Tenths(295), cagr_percent |-> Tenths(127),
                   validation_score |-> Tenths(88),
                   supporting_indicators |->
                     <<"Childcare cost as percentage of household income",
                       "Female workforce participation rate",
                       "Childcare availability index">>,
                   validation_sources |->
                     <<"OECD Family Database",
                       "National Childcare Surveys",
                       "Labor Force Participation Statistics">> ] ],
      [ key |-> "Sustainable Agriculture Technology",
        data |-> [ market_size_usd_billions |-> Tenths(224), cagr_percent |-> Tenths(165),
                   validation_score |-> Tenths(83),
                   supporting_indicators |->
                     <<"Agricultural resource efficiency metrics",
                       "Climate impact on crop yields",
                       "Sustainable farming practice adoption rates">>,
                   validation_sources |->
                     <<"FAO Agricultural Statistics",
                       "Climate Change Impact Reports",
                       "Sustainable Agriculture Research Journals">> ] ],
      [ key |-> "Remote Work Technology",
        data |-> [ market_size_usd_billions |-> Tenths(386), cagr_percent |-> Tenths(189),
                   validation_score |-> Tenths(89),
                   supporting_indicators |->
                     <<"Remote work adoption by industry",
                       "Productivity metrics for remote workers",
                       "Digital collaboration tool usage">>,
                   validation_sources |->
                     <<"Global Workplace Analytics",
                       "Bureau of Labor Statistics",
                       "Enterprise Technology Market Reports">> ] ],
      [ key |-> "Telemedicine Services",
        data |-> [ market_size_usd_billions |-> Tenths(402), cagr_percent |-> Tenths(224),
                   validation_score |-> Tenths(93),
                   supporting_indicators |->
                     <<"Telemedicine adoption rates",
                       "Healthcare provider telemedicine implementation",
                       "Patient satisfaction with virtual care">>,
                   validation_sources |->
                     <<"American Medical Association Telehealth Reports",
                       "Healthcare Information and Management Systems Society",
                       "Patient Experience Surveys">> ] ]
    >>

\* the placeholder returned when the DataBank client cannot be imported or
\* called: a dict of two strings
FallbackValidationData ==
    << [ key |-> "note",
         data |-> PyStr("Using fallback validation data due to API access issues") ],
       [ key |-> "data_source",
         data |-> PyStr("Simulated market validation data") ] >>

ValidationFile == "market_validation_data.json"
FallbackFile == "market_validation_fallback.json"
ValidatedFile == "validated_market_profiles.json"

---------------------------------------------------------------------------
(* validate_markets.py: inputs of validate_market_profiles *)

ProfileInputs ==
    { [market_name |-> "Rural Healthcare Technology",
       opportunity_score |-> Tenths(196)],
      [market_name |-> "Rural Healthcare Technology Solutions",
       opportunity_score |-> Tenths(127)],
      [market_name |-> "Rural Healthcare Technology Solutions",
       opportunity_score |-> Tenths(196)],
      [market_name |-> "Rural Health",
       opportunity_score |-> Tenths(196)],
      [market_name |-> "Telemedicine Services for Remote Work Technology",
       opportunity_score |-> Tenths(127)],
      [market_name |-> "Senior-Focused Technology",
       opportunity_score |-> Tenths(127)],
      [market_name |-> "mental health technology",
       opportunity_score |-> Tenths(196)],
      [market_name |-> "Banknote Recycling Technology",
       opportunity_score |-> Tenths(127)] }

---------------------------------------------------------------------------
(* validate_markets.py: validate_market_profiles *)

NotValidated ==
    [ is_validated |-> FALSE, validation_score |-> 0,
      market_size_usd_billions |-> 0, cagr_percent |-> 0,
      supporting_indicators |-> <<>>, validation_sources |-> <<>> ]

Validated(valid_data) ==
    [ is_validated |-> TRUE,
      validation_score |-> Get(valid_data, "validation_score", 0),
      market_size_usd_billions |-> Get(valid_data, "market_size_usd_billions", 0),
      cagr_percent |-> Get(valid_data, "cagr_percent", 0),
      supporting_indicators |-> Get(valid_data, "supporting_indicators", <<>>),
      validation_sources |-> Get(valid_data, "validation_sources", <<>>) ]

\* Faulty variant: containment is accepted in either direction
KeyMatchesEitherWay(market_name, valid_market) ==
    \/ market_name = valid_market
    \/ InString(valid_market, market_name)
    \/ InString(market_name, valid_market)

\* Faulty variant: the comparison ignores case
KeyMatchesIgnoringCase(market_name, valid_market) ==
    \/ lower(market_name) = lower(valid_market)
    \/ InString(lower(valid_market), lower(market_name))

\* market_name == valid_market or valid_market in market_name
KeyMatches(market_name, valid_market) ==
    market_name = valid_market \/ InString(valid_market, market_name)

\* Faulty variant: no break, the last matching key wins
RECURSIVE FindLastValidation(_, _, _)
FindLastValidation(market_name, table, i) ==
    IF i > Len(table) THEN NotValidated
    ELSE LET later == FindLastValidation(market_name, table, i + 1) IN
         IF later.is_validated THEN later
         ELSE IF market_name = table[i].key \/ InString(table[i].key, market_name)
              THEN Validated(table[i].data)
              ELSE NotValidated

\* "for valid_market, valid_data in validation_data.items()" with its break:
\* the record of the first matching key from position i on
RECURSIVE FindValidation(_, _, _)
FindValidation(market_name, table, i) ==
    IF i > Len(table) THEN NotValidated
    ELSE IF KeyMatches(market_name, table[i].key) THEN Validated(table[i].data)
    ELSE FindValidation(market_name, table, i + 1)

\* the first key that matches the name holds a value without .get (a string):
\* valid_data.get('validation_score', 0) raises AttributeError
RECURSIVE FirstMatchRaises(_, _, _)
FirstMatchRaises(market_name, table, i) ==
    IF i > Len(table) THEN FALSE
    ELSE IF KeyMatches(market_name, table[i].key) THEN ~IsDict(table[i].data)
    ELSE FirstMatchRaises(market_name, table, i + 1)

\* profile.copy() with the 'validation' field set
ValidateProfile(profile, table) ==
    [ f \in DOMAIN profile \cup {"validation"} |->
        IF f = "validation"
        THEN FindValidation(Get(profile, "market_name", ""), table, 1)
        ELSE profile[f] ]

ValidateAll(list, table) ==
    [i \in 1..Len(list) |-> ValidateProfile(list[i], table)]

\* Faulty variant: the key is (opportunity_score, validation_score)
KeyAtLeastByOpportunity(p, q) ==
    LET pv == Get(Get(p, "validation", EmptyDict), "validation_score", 0)
        qv == Get(Get(q, "validation", EmptyDict), "validation_score", 0)
        po == Get(p, "opportunity_score", 0)
        qo == Get(q, "opportunity_score", 0)
    IN  po > qo \/ (po = qo /\ pv >= qv)

\* key=lambda x: (validation_score or 0, opportunity_score), compared as tuples
KeyAtLeast(p, q) ==
    LET pv == Get(Get(p, "validation", EmptyDict), "validation_score", 0)
        qv == Get(Get(q, "validation", EmptyDict), "validation_score", 0)
        po == Get(p, "opportunity_score", 0)
        qo == Get(q, "opportunity_score", 0)
    IN  pv > qv \/ (pv = qv /\ po >= qo)

\* validated_profiles.sort(key=..., reverse=True): stable, descending
InsertByValidation(sorted, profile) ==
    LET k == Cardinality({i \in 1..Len(sorted) : KeyAtLeast(sorted[i], profile)})
    IN  SubSeq(sorted, 1, k) \o <<profile>> \o SubSeq(sorted, k + 1, Len(sorted))

RECURSIVE SortByValidation(_, _)
SortByValidation(list, n) ==
    IF n = 0 THEN <<>>
    ELSE InsertByValidation(SortByValidation(list, n - 1), list[n])

---------------------------------------------------------------------------
(* validate_markets.py: generate_validation_report *)

\* profile.get('validation', {}).get('is_validated', False)
IsValidated(profile) ==
    Get(Get(profile, "validation", EmptyDict), "is_validated", FALSE)

\* Faulty variant: the validated markets are counted as they are written
HeadingNumbersCounted(list) ==
    1..Cardinality({i \in 1..Len(list) : IsValidated(list[i])})

\* the numbers of the headings "### {i}. {market_name}": for i, profile in
\* enumerate(validated_profiles, 1), without the profiles the loop skips
HeadingNumbers(list) ==
    {i \in 1..Len(list) : IsValidated(list[i])}

---------------------------------------------------------------------------
(* synthesize_markets.py: create_market_opportunity_profiles *)

TopN == 10

ProfilesFile == "market_opportunity_profiles.json"

\* the rules of target_demographics, in the order of the if statements
DemographicRules ==
    << [ keywords |-> <<"elderly", "senior", "aging">>,
         tags |-> <<"Seniors (65+)",
                    "Adult children of seniors",
                    "Healthcare providers">> ],
       [ keywords |-> <<"rural">>,
         tags |-> <<"Rural communities",
                    "Small town residents",
                    "Agricultural sector">> ],
       [ keywords |-> <<"health", "wellness", "care">>,
         tags |-> <<"Health-conscious consumers",
                    "Healthcare providers",
                    "Insurance companies">> ],
       [ keywords |-> <<"education", "learning", "training">>,
         tags |-> <<"Students",
                    "Working professionals",
                    "Educational institutions">> ],
       [ keywords |-> <<"housing", "home">>,
         tags |-> <<"First-time homebuyers",
                    "Middle-income families",
                    "Real estate developers">> ],
       [ keywords |-> <<"childcare">>,
         tags |-> <<"Working parents",
                    "Single-parent households",
                    "Employers with parent employees">> ] >>

\* the rules of business_model_suggestions, in the order of the if statements
BusinessModelRules ==
    << [ keywords |-> <<"technology", "tech">>,
         tags |-> <<"SaaS subscription model",
                    "Hardware + software solution",
                    "B2B enterprise sales">> ],
       [ keywords |-> <<"healthcare", "health">>,
         tags |-> <<"Telehealth platform",
                    "Insurance partnerships",
                    "Direct-to-consumer health services">> ],
       [ keywords |-> <<"education", "learning">>,
         tags |-> <<"Freemium learning platform",
                    "B2B institutional sales",
                    "Certification programs">> ],
       [ keywords |-> <<"sustainable", "packaging">>,
         tags |-> <<"B2B supplier model",
                    "Circular economy approach",
                    "Subscription refill service">> ],
       [ keywords |-> <<"rural">>,
         tags |-> <<"Hub and spoke distribution",
                    "Mobile service delivery",
                    "Community partnership model">> ] >>

\* any keyword of the rule occurs in the lower-cased market name
RuleApplies(rule, lower_name) ==
    \E i \in 1..Len(rule.keywords) : InString(rule.keywords[i], lower_name)

\* Faulty variant: a tag that is already in the list is not appended again
RECURSIVE AppendTagsOnce(_, _, _)
AppendTagsOnce(list, tags, i) ==
    IF i > Len(tags) THEN list
    ELSE AppendTagsOnce(IF InList(tags[i], list) THEN list ELSE Append(list, tags[i]),
                        tags, i + 1)

\* the appends of one if statement, from tag i on
RECURSIVE AppendTags(_, _, _)
AppendTags(list, tags, i) ==
    IF i > Len(tags) THEN list
    ELSE AppendTags(Append(list, tags[i]), tags, i + 1)

\* the if statements of a rule table from rule i on, applied to the list so far
RECURSIVE TagsFrom(_, _, _, _)
TagsFrom(list, rules, lower_name, i) ==
    IF i > Len(rules) THEN list
    ELSE TagsFrom(IF RuleApplies(rules[i], lower_name)
                  THEN AppendTags(list, rules[i].tags, 1)
                  ELSE list,
                  rules, lower_name, i + 1)

\* any(keyword in tech_name for keyword in market_keywords): tech_name is a
\* string, the test is the substring test
TechMatches(market_keywords, tech_name) ==
    \E i \in 1..Len(market_keywords) : InString(market_keywords[i], tech_name)

RelatedTechnology(tech) ==
    [ name |-> Get(tech, "technology", ""),
      market_readiness |-> Get(tech, "market_readiness", 0),
      investment_trend |-> Get(tech, "investment_trend", ""),
      adoption_barriers |-> Get(tech, "adoption_barriers", <<>>) ]

\* the loop "for tech in emerging_tech", from entry i on
RECURSIVE RelatedTechnologies(_, _, _)
RelatedTechnologies(market_keywords, tech_list, i) ==
    IF i > Len(tech_list) THEN <<>>
    ELSE (IF TechMatches(market_keywords, lower(Get(tech_list[i], "technology", "")))
          THEN <<RelatedTechnology(tech_list[i])>>
          ELSE <<>>)
         \o RelatedTechnologies(market_keywords, tech_list, i + 1)

\* any(keyword in trend_title or keyword in trend_desc for keyword in ...)
TrendMatches(market_keywords, trend) ==
    \E i \in 1..Len(market_keywords) :
        \/ InString(market_keywords[i], lower(Get(trend, "title", "")))
        \/ InString(market_keywords[i], lower(Get(trend, "description", "")))

RelatedTrend(trend) ==
    [ title |-> Get(trend, "title", ""),
      description |-> Get(trend, "description", ""),
      source |-> Get(trend, "source", ""),
      sectors |-> Get(trend, "sectors", <<>>),
      sentiment |-> Get(trend, "sentiment", "") ]

\* the loop "for trend in website_trends", from entry i on
RECURSIVE RelatedTrends(_, _, _)
RelatedTrends(market_keywords, trends, i) ==
    IF i > Len(trends) THEN <<>>
    ELSE (IF TrendMatches(market_keywords, trends[i])
          THEN <<RelatedTrend(trends[i])>>
          ELSE <<>>)
         \o RelatedTrends(market_keywords, trends, i + 1)

website_trends(data) == Section(data, "website_trends", "trends")

\* the profile of one market of top_markets
MarketProfile(market, data) ==
    LET market_name == Get(market, "name", "")
        market_keywords == split(lower(market_name))
    IN  [ market_name |-> market_name,
          opportunity_score |-> Get(market, "total_score", 0),
          gap_score |-> Get(market, "gap_score", 0),
          growth_potential |-> Get(market, "growth_potential", ""),
          barriers_to_entry |-> Get(market, "barriers", <<>>),
          data_sources |-> Get(market, "sources", <<>>),
          related_technologies |->
              RelatedTechnologies(market_keywords, emerging_tech(data), 1),
          related_trends |-> RelatedTrends(market_keywords, website_trends(data), 1),
          target_demographics |->
              TagsFrom(<<>>, DemographicRules, lower(market_name), 1),
          business_model_suggestions |->
              TagsFrom(<<>>, BusinessModelRules, lower(market_name), 1) ]

\* Faulty variant: no cut at the top 10
MarketProfilesOfAll(list, data) ==
    LET named == SelectSeq(list, LAMBDA market : Get(market, "name", "") # "")
    IN  [k \in 1..Len(named) |-> MarketProfile(named[k], data)]

\* the loop "for market in top_markets", top_markets = market_list[:10];
\* a market without a name is skipped
MarketProfiles(list, data) ==
    LET top_markets == SubSeq(list, 1, Min(TopN, Len(list)))
        named == SelectSeq(top_markets, LAMBDA market : Get(market, "name", "") # "")
    IN  [k \in 1..Len(named) |-> MarketProfile(named[k], data)]

---------------------------------------------------------------------------
(* synthesize_markets.py: inputs of create_market_opportunity_profiles *)

\* the emerging technologies of the simulated indicators
EmergingTechnologies ==
    << [ technology |-> "Vertical Farming", market_readiness |-> Tenths(72),
         investment_trend |-> "Increasing",
         adoption_barriers |-> <<"Cost", "Technical Expertise", "Scale">> ],
       [ technology |-> "Telehealth Platforms", market_readiness |-> Tenths(85),
         investment_trend |-> "Rapidly Increasing",
         adoption_barriers |-> <<"Regulation", "Insurance Coverage", "Digital Divide">> ],
       [ technology |-> "AI-powered Education", market_readiness |-> Tenths(68),
         investment_trend |-> "Increasing",
         adoption_barriers |-> <<"Integration", "Teacher Training", "Content Development">> ],
       [ technology |-> "Carbon Capture Solutions", market_readiness |-> Tenths(59),
         investment_trend |-> "Steadily Increasing",
         adoption_barriers |-> <<"Cost", "Scale", "Policy Support">> ],
       [ technology |-> "Plant-based Alternatives", market_readiness |-> Tenths(87),
         investment_trend |-> "Rapidly Increasing",
         adoption_barriers |-> <<"Taste/Texture", "Price", "Consumer Education">> ],
       [ technology |-> "Digital Therapeutics", market_readiness |-> Tenths(74),
         investment_trend |-> "Increasing",
         adoption_barriers |-> <<"Clinical Validation", "Reimbursement", "Integration">> ] >>

\* entries of website_trends.trends
WebsiteTrends ==
    << [ title |-> "Rural broadband funding expands", description |-> "",
         source |-> "TechCrunch", sectors |-> <<"Technology">>,
         sentiment |-> "positive" ],
       [ title |-> "Clinics go digital",
         description |-> "Mental health apps reach new users",
         source |-> "Forbes", sectors |-> <<"Healthcare">>,
         sentiment |-> "neutral" ] >>

\* the combined analysis handed to the enricher: empty, without the sections
\* it reads, or with them
EnricherData ==
    { EmptyDict,
      [ underserved_markets |-> [markets |-> <<>>] ],
      [ emerging_technologies |-> [technologies |-> EmergingTechnologies],
        website_trends |-> [trends |-> WebsiteTrends, top_sectors |-> <<>>] ] }

\* a candidate as the scoring engine returns it
Candidate(name, total_score, gap_score, growth_potential, barriers, sources) ==
    [ NewCandidate(name) EXCEPT !.total_score = total_score,
                                !.gap_score = gap_score,
                                !.growth_potential = growth_potential,
                                !.barriers = barriers,
                                !.sources = sources ]

\* a ranked list: distinct names, total_score not increasing
RankedPool ==
    << Candidate("Rural Healthcare Technology", Tenths(196), Tenths(87), "High",
                 <<"Infrastructure", "Digital Literacy">>,
                 <<"economic_indicators", "web_scraping">>),
       Candidate("Elderly Healthcare Services", Tenths(187), Tenths(0), "Medium",
                 <<>>,
                 <<"economic_indicators">>),
       Candidate("Elderly-focused Technology", Tenths(187), Tenths(79), "",
                 <<"Cost">>,
                 <<"web_scraping">>),
       Candidate("Mental Health Services", Tenths(178), Tenths(87), "High",
                 <<"Infrastructure", "Digital Literacy">>,
                 <<"economic_indicators", "economic_indicators">>),
       Candidate("Sustainable Packaging Solutions", Tenths(169), Tenths(0), "Medium",
                 <<>>,
                 <<"economic_indicators", "web_scraping">>),
       Candidate("Middle-Income Housing", Tenths(160), Tenths(79), "",
                 <<"Cost">>,
                 <<"economic_indicators">>),
       Candidate("Educational Technology for Vocational Training", Tenths(160), Tenths(87), "High",
                 <<"Infrastructure", "Digital Literacy">>,
                 <<"web_scraping">>),
       Candidate("Affordable Childcare Solutions", Tenths(151), Tenths(0), "Medium",
                 <<>>,
                 <<"economic_indicators", "economic_indicators">>),
       Candidate("AI Tutoring", Tenths(142), Tenths(79), "",
                 <<"Cost">>,
                 <<"economic_indicators", "web_scraping">>),
       Candidate("Senior-Focused Technology", Tenths(133), Tenths(87), "High",
                 <<"Infrastructure", "Digital Literacy">>,
                 <<"economic_indicators">>),
       Candidate("Mental Health Technology", Tenths(133), Tenths(0), "Medium",
                 <<>>,
                 <<"web_scraping">>),
       Candidate("Vocational Education Technology", Tenths(124), Tenths(79), "",
                 <<"Cost">>,
                 <<"economic_indicators", "economic_indicators">>),
       Candidate("Sustainable Agriculture Technology", Tenths(115), Tenths(87), "High",
                 <<"Infrastructure", "Digital Literacy">>,
                 <<"economic_indicators", "web_scraping">>),
       Candidate("Affordable Childcare", Tenths(106), Tenths(0), "Medium",
                 <<>>,
                 <<"economic_indicators">>) >>

\* the ranked lists handed to the enricher: runs of the pool
RankedLists ==
    { SubSeq(RankedPool, run[1], run[2]) :
        run \in { r \in (1..Len(RankedPool)) \X (0..Len(RankedPool)) :
                    r[2] >= r[1] - 1 /\ r[2] - r[1] < MaxRanked } }

---------------------------------------------------------------------------
(* The scripts as a state machine.  A run is one script applied to the     *)
(* input it loaded: the synthesis script to a combined analysis, the       *)
(* validation script to a list of profiles.                                *)

\* the surroundings of a run: whether the DataBank client can be imported and
\* called, and whether the installed plotting libraries draw a chart of no
\* data (they raise when not)
Environments == [api_available : BOOLEAN, empty_chart_drawn : BOOLEAN]

UsualEnvironment == [api_available |-> TRUE, empty_chart_drawn |-> FALSE]

InitSynthesize ==
    /\ stage = "synthesize"
    /\ pc = "start"
    /\ \/ combined_data \in CombinedDataInputs
       \/ combined_data \in MalformedInputs
       \/ combined_data \in SparseInputs
       \/ combined_data \in RichInputs
       \/ combined_data \in InvestmentInputs
       \/ combined_data \in GrowthPotentialInputs
    /\ market_scores = <<>>
    /\ market_list = <<>>
    /\ market_profiles = <<>>
    /\ profiles = <<>>
    /\ validation_data = <<>>
    /\ validated_profiles = <<>>
    /\ written = {}
    /\ present = {}
    /\ files = EmptyDict
    /\ first_run = <<>>
    /\ environment = UsualEnvironment

InitValidate ==
    /\ stage = "validate"
    /\ pc = "start"
    /\ combined_data = EmptyDict
    /\ market_scores = <<>>
    /\ market_list = <<>>
    /\ market_profiles = <<>>
    /\ profiles \in SeqUpTo(ProfileInputs, MaxProfiles)
    /\ validation_data = <<>>
    /\ validated_profiles = <<>>
    /\ written = {}
    /\ present = {}
    /\ files = EmptyDict
    /\ first_run = <<>>
    /\ environment = UsualEnvironment

InitEnrich ==
    /\ stage = "enrich"
    /\ pc = "start"
    /\ combined_data \in EnricherData
    /\ market_scores = <<>>
    /\ market_list \in RankedLists
    /\ market_profiles = <<>>
    /\ profiles = <<>>
    /\ validation_data = <<>>
    /\ validated_profiles = <<>>
    /\ written = {}
    /\ present = {}
    /\ files = EmptyDict
    /\ first_run = <<>>
    /\ environment = UsualEnvironment

Init == InitSynthesize \/ InitEnrich \/ InitValidate

\* files written by identify_top_underserved_markets
RankedFile == "ranked_underserved_markets.json"
RankingCharts == {"top_underserved_markets.png", "market_score_components.png"}

\* a file that holds the JSON text of a value: json.load returns the value
Json(value) == [json |-> value]

\* Faulty variant: the file is opened for appending, the new list follows the
\* one it held
SaveAppending(fs, file, content) ==
    [f \in DOMAIN fs \cup {file} |->
        IF f # file THEN fs[f]
        ELSE IF file \in DOMAIN fs THEN Json(fs[file].json \o content)
        ELSE Json(content)]

\* with open(path, 'w') as f: json.dump(content, f): the file holds the new
\* content, whatever it held before
Save(fs, file, content) ==
    [f \in DOMAIN fs \cup {file} |-> IF f = file THEN Json(content) ELSE fs[f]]

\* what a chart or a report written by the run holds; the reports carry the
\* time of the run
Produced == [written_by |-> "this run", run |-> Len(first_run) + 1]

\* plt.savefig(path), f.write(report) for each of the files
SaveAll(fs, names) ==
    [f \in DOMAIN fs \cup names |-> IF f \in names THEN Produced ELSE fs[f]]

RunVars == <<first_run, environment>>
SynthesizeVars == <<combined_data, market_scores, market_list, market_profiles>>
ValidateVars == <<profiles, validation_data, validated_profiles>>

\* if not combined_data: return []
NoCombinedData ==
    /\ stage = "synthesize" /\ pc = "start"
    /\ combined_data = EmptyDict
    /\ market_list' = <<>>
    /\ pc' = "returned"
    /\ UNCHANGED <<stage, present, RunVars, combined_data, market_scores, market_profiles, ValidateVars, written, files>>

\* the loop over underserved_markets; market.get(...) on an item that is not
\* a dict raises AttributeError
ScoreUnderserved ==
    /\ stage = "synthesize" /\ pc = "start"
    /\ combined_data # EmptyDict
    /\ IF AllDicts(underserved_markets(combined_data))
       THEN /\ market_scores' =
                 ScoreUnderservedFrom(<<>>, underserved_markets(combined_data), 1)
            /\ pc' = "underserved_scored"
       ELSE /\ market_scores' = market_scores
            /\ pc' = "raised"
    /\ UNCHANGED <<stage, present, RunVars, combined_data, market_list, market_profiles, ValidateVars, written, files>>

\* the loop over market_mentions; mention.get(...) on an item that is not a
\* dict raises AttributeError
ScoreMentions ==
    /\ stage = "synthesize" /\ pc = "underserved_scored"
    /\ IF AllDicts(market_mentions(combined_data))
       THEN /\ market_scores' =
                 ScoreMentionsFrom(market_scores, market_mentions(combined_data), 1)
            /\ pc' = "mentions_scored"
       ELSE /\ market_scores' = market_scores
            /\ pc' = "raised"
    /\ UNCHANGED <<stage, present, RunVars, combined_data, market_list, market_profiles, ValidateVars, written, files>>

\* the loop over market_scores.items()
ScoreAlignment ==
    /\ stage = "synthesize" /\ pc = "mentions_scored"
    /\ market_scores' = AlignMarkets(market_scores, combined_data)
    /\ pc' = "aligned"
    /\ UNCHANGED <<stage, present, RunVars, combined_data, market_list, market_profiles, ValidateVars, written, files>>

\* list(market_scores.values()), sort, save the ranked list, draw the two
\* charts, return market_list.  The first chart is
\* sns.barplot(x='total_score', y='name', data=pd.DataFrame(market_list[:10])):
\* the frame of an empty list has no column 'total_score' and the call raises
\* ValueError.
RankMarkets ==
    /\ stage = "synthesize" /\ pc = "aligned"
    /\ market_list' = RankedMarkets(market_scores)
    /\ IF market_scores = <<>>
       THEN /\ written' = written \cup {RankedFile}
            /\ files' = Save(files, RankedFile, market_list')
            /\ pc' = "raised"
       ELSE /\ written' = written \cup {RankedFile} \cup RankingCharts
            /\ files' = SaveAll(Save(files, RankedFile, market_list'), RankingCharts)
            /\ pc' = "returned"
    /\ UNCHANGED <<stage, present, RunVars, combined_data, market_scores, market_profiles, ValidateVars>>

\* if not market_list or not combined_data: return []
NoMarketData ==
    /\ stage = "enrich" /\ pc = "start"
    /\ market_list = <<>> \/ combined_data = EmptyDict
    /\ market_profiles' = <<>>
    /\ pc' = "returned"
    /\ UNCHANGED <<stage, present, RunVars, combined_data, market_scores, market_list, ValidateVars,
                   written, files>>

\* the loop over market_list[:10], then the profiles are saved and returned
CreateProfiles ==
    /\ stage = "enrich" /\ pc = "start"
    /\ market_list # <<>> /\ combined_data # EmptyDict
    /\ market_profiles' = MarketProfiles(market_list, combined_data)
    /\ written' = written \cup {ProfilesFile}
    /\ files' = Save(files, ProfilesFile, market_profiles')
    /\ pc' = "returned"
    /\ UNCHANGED <<stage, present, RunVars, combined_data, market_scores, market_list, ValidateVars>>

\* validate_with_databank_indicators: the simulated dataset when the DataBank
\* client can be imported and called, the fallback placeholder when not
LoadValidationData ==
    /\ stage = "validate" /\ pc = "start"
    /\ \E available \in BOOLEAN :
          IF available
          THEN /\ validation_data' = SimulatedValidationData
               /\ written' = written \cup {ValidationFile}
               /\ files' = Save(files, ValidationFile, validation_data')
          ELSE /\ validation_data' = FallbackValidationData
               /\ written' = written \cup {FallbackFile}
               /\ files' = Save(files, FallbackFile, validation_data')
    /\ pc' = "loaded"
    /\ UNCHANGED <<stage, present, RunVars, profiles, validated_profiles, SynthesizeVars>>

\* if not profiles: return []
NoProfiles ==
    /\ stage = "validate" /\ pc = "loaded"
    /\ profiles = <<>>
    /\ validated_profiles' = <<>>
    /\ pc' = "returned"
    /\ UNCHANGED <<stage, present, RunVars, profiles, validation_data, SynthesizeVars, written, files>>

\* Faulty variant: validated_profile = profile, without the copy
ValidateProfilesInPlace ==
    /\ stage = "validate" /\ pc = "loaded"
    /\ profiles # <<>>
    /\ IF \E k \in 1..Len(profiles) :
             FirstMatchRaises(Get(profiles[k], "market_name", ""), validation_data, 1)
       THEN /\ validated_profiles' = validated_profiles
            /\ profiles' = profiles
            /\ pc' = "raised"
       ELSE /\ validated_profiles' = ValidateAll(profiles, validation_data)
            /\ profiles' = validated_profiles'
            /\ pc' = "validated"
    /\ UNCHANGED <<stage, present, RunVars, validation_data, SynthesizeVars, written, files>>

\* the loop over profiles
ValidateProfiles ==
    /\ stage = "validate" /\ pc = "loaded"
    /\ profiles # <<>>
    /\ IF \E k \in 1..Len(profiles) :
             FirstMatchRaises(Get(profiles[k], "market_name", ""), validation_data, 1)
       THEN /\ validated_profiles' = validated_profiles
            /\ pc' = "raised"
       ELSE /\ validated_profiles' = ValidateAll(profiles, validation_data)
            /\ pc' = "validated"
    /\ UNCHANGED <<stage, present, RunVars, profiles, validation_data, SynthesizeVars, written, files>>

\* validated_profiles.sort(...), save and return validated_profiles
SortValidated ==
    /\ stage = "validate" /\ pc = "validated"
    /\ validated_profiles' =
         SortByValidation(validated_profiles, Len(validated_profiles))
    /\ written' = written \cup {ValidatedFile}
    /\ files' = Save(files, ValidatedFile, validated_profiles')
    /\ pc' = "returned"
    /\ UNCHANGED <<stage, present, RunVars, profiles, validation_data, SynthesizeVars>>

Next ==
    \/ NoCombinedData
    \/ ScoreUnderserved
    \/ ScoreMentions
    \/ ScoreAlignment
    \/ RankMarkets
    \/ NoMarketData
    \/ CreateProfiles
    \/ LoadValidationData
    \/ NoProfiles
    \/ ValidateProfiles
    \/ SortValidated

Spec == Init /\ [][Next]_vars

---------------------------------------------------------------------------
(* The scripts run from main().  A run starts with the files in present on *)
(* disk, reads the input file of its stage and writes its output files.    *)
(* analyze_economic_data.py is the aggregation stage, synthesize_markets.py *)
(* the synthesis stage, validate_markets.py the validation stage and       *)
(* generate_final_report.py the final-report stage.                        *)

\* ../data/news: the files the aggregation stage looks for with glob
EconomicFile == "news/economic_indicators_*.json"
AnalysisFiles == "news/analysis_*.json"
TrendsFile == "news/scraped_trends_*.json"
DataFiles == {EconomicFile, AnalysisFiles, TrendsFile}

\* ../results: the file the aggregation stage hands to the synthesis stage
CombinedFile == "combined_market_analysis.json"

\* the six analyses of the aggregation stage, by their key in the combined
\* analysis, with the data file each one reads
Analyses ==
    {"economic_growth", "underserved_markets", "emerging_technologies",
     "news_sentiment", "market_mentions", "website_trends"}

InputOf(analysis) ==
    CASE analysis \in {"economic_growth", "underserved_markets",
                       "emerging_technologies"} -> EconomicFile
      [] analysis = "news_sentiment" -> AnalysisFiles
      [] OTHER -> TrendsFile

\* the charts and the JSON file an analysis saves when it has data
OutputsOf(analysis) ==
    CASE analysis = "economic_growth" ->
           {"gdp_growth_by_country.png", "investment_by_country.png",
            "economic_growth_analysis.json"}
      [] analysis = "underserved_markets" ->
           {"underserved_markets_gap_score.png", "underserved_markets_barriers.png",
            "underserved_markets_growth_potential.png",
            "underserved_markets_analysis.json"}
      [] analysis = "emerging_technologies" ->
           {"emerging_technologies_readiness.png",
            "emerging_technologies_barriers.png",
            "emerging_technologies_investment.png",
            "emerging_technologies_analysis.json"}
      [] analysis = "news_sentiment" ->
           {"news_sentiment_by_query.png", "sentiment_distribution_by_query.png",
            "news_sentiment_analysis.json"}
      [] analysis = "market_mentions" ->
           {"market_mentions_count.png", "market_mentions_sentiment.png",
            "market_growth_indicators.png", "market_mentions_analysis.json"}
      [] OTHER ->
           {"trending_sectors.png", "trend_sentiment_distribution.png",
            "website_trends_analysis.json"}

\* what an analysis returns when it has data: the part of it that the
\* synthesis stage reads
AnalysisOf(analysis) ==
    CASE analysis = "economic_growth" ->
           [growth_sectors |->
              <<"Technology", "Healthcare", "Renewable Energy", "E-commerce">>,
            hot_investment_areas |->
              <<"Green Technology", "Digital Infrastructure", "Biotechnology",
                "Space Technology">>]
      [] analysis = "underserved_markets" ->
           [markets |->
              << [market |-> "Rural Healthcare Technology", gap_score |-> Tenths(87),
                  growth_potential |-> "High", barriers |-> <<"Infrastructure">>] >>]
      [] analysis = "emerging_technologies" ->
           [technologies |-> EmergingTechnologies]
      [] analysis = "news_sentiment" ->
           [overall_sentiment |-> "positive"]
      [] analysis = "market_mentions" ->
           [market_mentions |->
              << [market |-> "Rural Healthcare Technology", mention_count |-> 12,
                  sentiment_score |-> Hundredths(78)] >>]
      [] OTHER ->
           [trends |-> WebsiteTrends, top_sectors |-> <<"healthcare">>]

\* datetime.now().strftime('%Y-%m-%d %H:%M:%S')
Timestamp == "2025-01-01 00:00:00"

\* combined_analysis: the timestamp and the six results, {} for an analysis
\* that had no data
CombinedAnalysis(done) ==
    [key \in Analyses \cup {"timestamp"} |->
        IF key = "timestamp" THEN Timestamp
        ELSE IF key \in done THEN AnalysisOf(key) ELSE EmptyDict]

\* A file that json.load cannot parse (zero bytes): the load raises
NotJson == [zero_bytes |-> TRUE]

\* what combined_market_analysis.json may hold
CombinedFiles ==
    {NotJson, Json(EmptyDict)}
    \cup { Json(CombinedAnalysis(done)) : done \in SUBSET Analyses }
    \cup { Json(CombinedData(u, m, g, t)) :
             u \in SeqUpTo(UnderservedRecords, MaxBeside),
             m \in SeqUpTo(MentionRecords, MaxBeside),
             g \in EconomicGrowthSections, t \in TrendSections }
    \cup { Json(data) : data \in MalformedInputs }

\* files written by the later steps of the synthesis stage
BarrierChart == "common_market_barriers.png"
BarrierFile == "market_barrier_analysis.json"
MarketsReport == "underserved_markets_report.md"

\* what a chart or a report left on disk by an earlier run holds
OnDisk == [written_by |-> "an earlier run"]

\* identify_top_underserved_markets(combined_data) as one call
IdentifiedScores(data) ==
    AlignMarkets(
        ScoreMentionsFrom(
            ScoreUnderservedFrom(<<>>, underserved_markets(data), 1),
            market_mentions(data), 1),
        data)

\* the combined analysis of an earlier run, and the ranked list and the
\* profiles that the synthesis stage wrote from it
EarlierAnalysis ==
    CombinedData(
        << [market |-> "Elderly-focused Technology", gap_score |-> Tenths(87),
            growth_potential |-> "High", barriers |-> <<"Adoption Rate", "Usability">>] >>,
        <<>>,
        [growth_sectors |-> <<>>, hot_investment_areas |-> <<>>],
        [technologies |-> <<>>, top_sectors |-> <<>>])

EarlierRanked == RankedMarkets(IdentifiedScores(EarlierAnalysis))
EarlierProfiles == MarketProfiles(EarlierRanked, EarlierAnalysis)

MainStart(name) ==
    /\ stage = name
    /\ pc = "start"
    /\ combined_data = EmptyDict
    /\ market_scores = <<>>
    /\ market_list = <<>>
    /\ market_profiles = <<>>
    /\ profiles = <<>>
    /\ validation_data = <<>>
    /\ validated_profiles = <<>>
    /\ written = {}
    /\ first_run = <<>>

InitAggregation ==
    /\ MainStart("aggregation_main")
    /\ present \in SUBSET DataFiles
    /\ files = [f \in present |-> OnDisk]
    /\ environment = UsualEnvironment

\* the synthesis stage does not call the DataBank client
InitSynthesis ==
    /\ MainStart("synthesis_main")
    /\ present \in SUBSET {CombinedFile, RankedFile, ProfilesFile}
    /\ \E combined \in CombinedFiles :
          files = [f \in present |->
                      CASE f = CombinedFile -> combined
                        [] f = RankedFile -> Json(EarlierRanked)
                        [] OTHER -> Json(EarlierProfiles)]
    /\ environment \in {e \in Environments : e.api_available}

\* analyze_economic_data.main: each analysis returns {} without saving when
\* its data file is absent (or lacks the key it reads); the combined analysis
\* is saved in every case
AnalyzeEconomicData ==
    /\ stage = "aggregation_main" /\ pc = "start"
    /\ \E done \in SUBSET {a \in Analyses : InputOf(a) \in DOMAIN files} :
          /\ combined_data' = CombinedAnalysis(done)
          /\ written' = written \cup UNION {OutputsOf(a) : a \in done}
                                \cup {CombinedFile}
          /\ files' = Save(SaveAll(files, UNION {OutputsOf(a) : a \in done}),
                           CombinedFile, combined_data')
    /\ pc' = "done"
    /\ UNCHANGED <<stage, present, RunVars, market_scores, market_list,
                   market_profiles, ValidateVars>>

\* load_combined_analysis: None (here the empty dict, equally false) when the
\* file does not exist, else what json.load returns
LoadCombinedAnalysis ==
    /\ stage = "synthesis_main" /\ pc = "start"
    /\ IF CombinedFile \notin DOMAIN files
       THEN /\ combined_data' = EmptyDict
            /\ pc' = "loaded"
       ELSE IF files[CombinedFile] = NotJson
       THEN /\ combined_data' = combined_data
            /\ pc' = "raised"
       ELSE /\ combined_data' = files[CombinedFile].json
            /\ pc' = "loaded"
    /\ UNCHANGED <<stage, present, RunVars, market_scores, market_list,
                   market_profiles, ValidateVars, written, files>>

\* if not combined_data: print(...); return
ExitNoCombinedData ==
    /\ stage = "synthesis_main" /\ pc = "loaded"
    /\ combined_data = EmptyDict
    /\ pc' = "exited"
    /\ UNCHANGED <<stage, present, RunVars, SynthesizeVars, ValidateVars,
                   written, files>>

IdentifyMarkets ==
    /\ stage = "synthesis_main" /\ pc = "loaded"
    /\ combined_data # EmptyDict
    /\ IF /\ AllDicts(underserved_markets(combined_data))
          /\ AllDicts(market_mentions(combined_data))
       THEN /\ market_scores' = IdentifiedScores(combined_data)
            /\ market_list' = RankedMarkets(market_scores')
            /\ IF market_scores' = <<>>
               THEN /\ written' = written \cup {RankedFile}
                    /\ files' = Save(files, RankedFile, market_list')
                    /\ pc' = "raised"
               ELSE /\ written' = written \cup {RankedFile} \cup RankingCharts
                    /\ files' = SaveAll(Save(files, RankedFile, market_list'),
                                        RankingCharts)
                    /\ pc' = "identified"
       ELSE /\ UNCHANGED <<market_scores, market_list, written, files>>
            /\ pc' = "raised"
    /\ UNCHANGED <<stage, present, RunVars, combined_data, market_profiles,
                   ValidateVars>>

\* no candidate of the list has a name and a barrier: all_barriers is empty
NoBarriers(list) ==
    \A k \in 1..Len(list) :
        \/ Get(list[k], "name", "") = ""
        \/ Get(list[k], "barriers", <<>>) = <<>>

\* analyze_market_barriers(market_list) with a list that is not empty.  With
\* no barrier at all the chart is drawn from an empty Series, which raises in
\* some versions of pandas and draws an empty chart in others.
AnalyzeBarriers ==
    /\ stage = "synthesis_main" /\ pc = "identified"
    /\ IF NoBarriers(market_list) /\ ~environment.empty_chart_drawn
       THEN /\ UNCHANGED <<written, files>>
            /\ pc' = "raised"
       ELSE /\ written' = written \cup {BarrierChart, BarrierFile}
            /\ files' = SaveAll(files, {BarrierChart, BarrierFile})
            /\ pc' = "barriers_analyzed"
    /\ UNCHANGED <<stage, present, RunVars, SynthesizeVars, ValidateVars>>

\* create_market_opportunity_profiles(market_list, combined_data): both
\* arguments are non-empty here
CreateOpportunityProfiles ==
    /\ stage = "synthesis_main" /\ pc = "barriers_analyzed"
    /\ market_profiles' = MarketProfiles(market_list, combined_data)
    /\ written' = written \cup {ProfilesFile}
    /\ files' = Save(files, ProfilesFile, market_profiles')
    /\ pc' = "profiled"
    /\ UNCHANGED <<stage, present, RunVars, combined_data, market_scores,
                   market_list, ValidateVars>>

\* generate_market_summary_report(market_profiles), then main returns
GenerateSummaryReport ==
    /\ stage = "synthesis_main" /\ pc = "profiled"
    /\ IF market_profiles = <<>>
       THEN UNCHANGED <<written, files>>
       ELSE /\ written' = written \cup {MarketsReport}
            /\ files' = SaveAll(files, {MarketsReport})
    /\ pc' = "done"
    /\ UNCHANGED <<stage, present, RunVars, SynthesizeVars, ValidateVars>>

\* files written by the later steps of the validation stage
ValidationCharts ==
    {"market_validation_scatter.png", "validated_market_size.png",
     "validated_market_cagr.png"}
ValidationReport == "market_validation_report.md"

\* what market_opportunity_profiles.json may hold
ProfilesFiles ==
    {NotJson} \cup {Json(list) : list \in SeqUpTo(ProfileInputs, MaxLoaded)}

\* the validated profiles that an earlier run of the validation stage saved
EarlierValidated ==
    SortByValidation(
        ValidateAll(<< [market_name |-> "Elderly-focused Technology",
                        opportunity_score |-> Tenths(117)] >>,
                    SimulatedValidationData), 1)

InitValidation ==
    /\ MainStart("validation_main")
    /\ present \in SUBSET {ProfilesFile, ValidatedFile, ValidationReport}
    /\ \E loaded \in ProfilesFiles :
          files = [f \in present |->
                      CASE f = ProfilesFile -> loaded
                        [] f = ValidatedFile -> Json(EarlierValidated)
                        [] OTHER -> OnDisk]
    /\ environment \in Environments

\* load_market_profiles: [] when the file does not exist, else what json.load
\* returns; json.load raises on a file of zero bytes
LoadMarketProfiles ==
    /\ stage = "validation_main" /\ pc = "start"
    /\ IF ProfilesFile \notin DOMAIN files
       THEN /\ profiles' = <<>>
            /\ pc' = "loaded"
       ELSE IF files[ProfilesFile] = NotJson
       THEN /\ profiles' = profiles
            /\ pc' = "raised"
       ELSE /\ profiles' = files[ProfilesFile].json
            /\ pc' = "loaded"
    /\ UNCHANGED <<stage, present, RunVars, SynthesizeVars, validation_data,
                   validated_profiles, written, files>>

\* if not profiles: print(...); return
ExitNoProfiles ==
    /\ stage = "validation_main" /\ pc = "loaded"
    /\ profiles = <<>>
    /\ pc' = "exited"
    /\ UNCHANGED <<stage, present, RunVars, SynthesizeVars, ValidateVars,
                   written, files>>

\* Faulty variant: the validation data is fetched whatever was loaded
FetchValidationDataUnchecked ==
    /\ stage = "validation_main" /\ pc = "loaded"
    /\ IF environment.api_available
       THEN /\ validation_data' = SimulatedValidationData
            /\ written' = written \cup {ValidationFile}
            /\ files' = Save(files, ValidationFile, validation_data')
       ELSE /\ validation_data' = FallbackValidationData
            /\ written' = written \cup {FallbackFile}
            /\ files' = Save(files, FallbackFile, validation_data')
    /\ pc' = "fetched"
    /\ UNCHANGED <<stage, present, RunVars, SynthesizeVars, profiles,
                   validated_profiles>>

\* validation_data = validate_with_databank_indicators()
FetchValidationData ==
    /\ stage = "validation_main" /\ pc = "loaded"
    /\ profiles # <<>>
    /\ IF environment.api_available
       THEN /\ validation_data' = SimulatedValidationData
            /\ written' = written \cup {ValidationFile}
            /\ files' = Save(files, ValidationFile, validation_data')
       ELSE /\ validation_data' = FallbackValidationData
            /\ written' = written \cup {FallbackFile}
            /\ files' = Save(files, FallbackFile, validation_data')
    /\ pc' = "fetched"
    /\ UNCHANGED <<stage, present, RunVars, SynthesizeVars, profiles,
                   validated_profiles>>

\* validate_market_profiles(profiles, validation_data) as one call
ValidateMarketProfiles ==
    /\ stage = "validation_main" /\ pc = "fetched"
    /\ IF \E k \in 1..Len(profiles) :
             FirstMatchRaises(Get(profiles[k], "market_name", ""), validation_data, 1)
       THEN /\ UNCHANGED <<validated_profiles, written, files>>
            /\ pc' = "raised"
       ELSE /\ validated_profiles' =
                 SortByValidation(ValidateAll(profiles, validation_data),
                                  Len(profiles))
            /\ written' = written \cup {ValidatedFile}
            /\ files' = Save(files, ValidatedFile, validated_profiles')
            /\ pc' = "validated"
    /\ UNCHANGED <<stage, present, RunVars, SynthesizeVars, profiles,
                   validation_data>>

\* some profile of the list is validated
AnyValidated(list) ==
    \E k \in 1..Len(list) :
        Get(Get(list[k], "validation", EmptyDict), "is_validated", FALSE)

\* create_validation_visualizations(validated_profiles).  With no validated
\* profile the charts are drawn from a frame without rows, which raises in
\* some versions of seaborn and draws empty charts in others.
CreateValidationVisualizations ==
    /\ stage = "validation_main" /\ pc = "validated"
    /\ IF ~AnyValidated(validated_profiles) /\ ~environment.empty_chart_drawn
       THEN /\ UNCHANGED <<written, files>>
            /\ pc' = "raised"
       ELSE /\ written' = written \cup ValidationCharts
            /\ files' = SaveAll(files, ValidationCharts)
            /\ pc' = "visualized"
    /\ UNCHANGED <<stage, present, RunVars, SynthesizeVars, ValidateVars>>

\* generate_validation_report(validated_profiles), then main returns
GenerateValidationReport ==
    /\ stage = "validation_main" /\ pc = "visualized"
    /\ written' = written \cup {ValidationReport}
    /\ files' = SaveAll(files, {ValidationReport})
    /\ pc' = "done"
    /\ UNCHANGED <<stage, present, RunVars, SynthesizeVars, ValidateVars>>

\* ../results/final_report/<file>
Final(file) == "final_report/" \o file

\* key_files of copy_key_files
KeyFiles ==
    {"underserved_markets_report.md", "market_validation_report.md",
     "top_underserved_markets.png", "market_validation_scatter.png",
     "validated_market_size.png", "validated_market_cagr.png",
     "market_score_components.png", "trending_sectors.png",
     "market_mentions_sentiment.png"}

ExecutiveSummary == Final("executive_summary.md")
FinalReport == Final("final_report.md")
FinalReportPdf == Final("automated_market_research_report.pdf")
StructuredPrompts == Final("structured_prompts.json")

\* what validated_market_profiles.json may hold: zero bytes, or a list saved
\* by the validation stage
ValidatedFiles ==
    {NotJson} \cup
    { Json(SortByValidation(ValidateAll(list, table), Len(list))) :
        list \in SeqUpTo(ProfileInputs, MaxBeside),
        table \in {SimulatedValidationData, <<>>} }

\* what a chart or a report holds that an upstream stage wrote after the
\* final-report stage last ran
Upstream == [written_by |-> "an upstream stage"]

\* the final-report stage does not draw charts and does not call the
\* DataBank client
InitReport ==
    /\ MainStart("report_main")
    /\ present \in SUBSET {ValidatedFile, MarketsReport, ValidationReport,
                           "top_underserved_markets.png", Final(MarketsReport)}
    /\ \E loaded \in ValidatedFiles :
          files = [f \in present |->
                      CASE f = ValidatedFile -> loaded
                        [] f \in KeyFiles -> Upstream
                        [] OTHER -> OnDisk]
    /\ environment = UsualEnvironment

\* shutil.copy2(src_path, dst_path) for every key file that exists in
\* ../results: the copy holds what the source holds
WithKeyFilesCopied(fs) ==
    LET existing == KeyFiles \cap DOMAIN fs IN
    [f \in DOMAIN fs \cup {Final(file) : file \in existing} |->
        IF \E file \in existing : f = Final(file)
        THEN fs[CHOOSE file \in existing : f = Final(file)]
        ELSE fs[f]]

\* copy_key_files()
CopyKeyFiles ==
    /\ stage = "report_main" /\ pc = "start"
    /\ written' = written \cup {Final(file) : file \in KeyFiles \cap DOMAIN files}
    /\ files' = WithKeyFilesCopied(files)
    /\ pc' = "copied"
    /\ UNCHANGED <<stage, present, RunVars, SynthesizeVars, ValidateVars>>

\* load_validated_profiles: [] when the file does not exist, else what
\* json.load returns; json.load raises on a file of zero bytes
LoadValidatedProfiles ==
    /\ stage = "report_main" /\ pc = "copied"
    /\ IF ValidatedFile \notin DOMAIN files
       THEN /\ validated_profiles' = <<>>
            /\ pc' = "loaded"
       ELSE IF files[ValidatedFile] = NotJson
       THEN /\ validated_profiles' = validated_profiles
            /\ pc' = "raised"
       ELSE /\ validated_profiles' = files[ValidatedFile].json
            /\ pc' = "loaded"
    /\ UNCHANGED <<stage, present, RunVars, SynthesizeVars, profiles,
                   validation_data, written, files>>

\* if not validated_profiles: print(...); return
ExitNoValidatedProfiles ==
    /\ stage = "report_main" /\ pc = "loaded"
    /\ validated_profiles = <<>>
    /\ pc' = "exited"
    /\ UNCHANGED <<stage, present, RunVars, SynthesizeVars, ValidateVars,
                   written, files>>

\* generate_executive_summary(validated_profiles)
GenerateExecutiveSummary ==
    /\ stage = "report_main" /\ pc = "loaded"
    /\ validated_profiles # <<>>
    /\ written' = written \cup {ExecutiveSummary}
    /\ files' = SaveAll(files, {ExecutiveSummary})
    /\ pc' = "summarized"
    /\ UNCHANGED <<stage, present, RunVars, SynthesizeVars, ValidateVars>>

\* Faulty variant: the report is written whether or not its parts exist
GenerateFinalReportUnchecked ==
    /\ stage = "report_main" /\ pc = "summarized"
    /\ \E pdf \in SUBSET {FinalReportPdf} :
          /\ written' = written \cup {FinalReport} \cup pdf
          /\ files' = SaveAll(files, {FinalReport} \cup pdf)
    /\ pc' = "reported"
    /\ UNCHANGED <<stage, present, RunVars, SynthesizeVars, ValidateVars>>

\* generate_final_report(): returns early unless the three parts exist in the
\* final_report directory; manus-md-to-pdf may or may not produce the PDF
GenerateFinalReport ==
    /\ stage = "report_main" /\ pc = "summarized"
    /\ IF {ExecutiveSummary, Final(MarketsReport), Final(ValidationReport)}
             \subseteq DOMAIN files
       THEN \E pdf \in SUBSET {FinalReportPdf} :
               /\ written' = written \cup {FinalReport} \cup pdf
               /\ files' = SaveAll(files, {FinalReport} \cup pdf)
       ELSE UNCHANGED <<written, files>>
    /\ pc' = "reported"
    /\ UNCHANGED <<stage, present, RunVars, SynthesizeVars, ValidateVars>>

\* create_structured_prompts(validated_profiles), then main returns
CreateStructuredPrompts ==
    /\ stage = "report_main" /\ pc = "reported"
    /\ written' = written \cup {StructuredPrompts}
    /\ files' = SaveAll(files, {StructuredPrompts})
    /\ pc' = "done"
    /\ UNCHANGED <<stage, present, RunVars, SynthesizeVars, ValidateVars>>

\* the script is started once more after it ended (returned or raised), in
\* the same surroundings, on the files as they now are; a new process starts
\* with fresh variables
RunAgain ==
    /\ stage \in {"synthesis_main", "validation_main"}
    /\ pc \in {"done", "exited", "raised"}
    /\ first_run = <<>>
    /\ first_run' = << [files |-> files, pc |-> pc] >>
    /\ pc' = "start"
    /\ combined_data' = EmptyDict
    /\ market_scores' = <<>>
    /\ market_list' = <<>>
    /\ market_profiles' = <<>>
    /\ profiles' = <<>>
    /\ validation_data' = <<>>
    /\ validated_profiles' = <<>>
    /\ written' = {}
    /\ present' = DOMAIN files
    /\ UNCHANGED <<stage, files, environment>>

MainInit == InitAggregation \/ InitSynthesis \/ InitValidation \/ InitReport

MainNext ==
    \/ AnalyzeEconomicData
    \/ LoadCombinedAnalysis
    \/ ExitNoCombinedData
    \/ IdentifyMarkets
    \/ AnalyzeBarriers
    \/ CreateOpportunityProfiles
    \/ GenerateSummaryReport
    \/ LoadMarketProfiles
    \/ ExitNoProfiles
    \/ FetchValidationData
    \/ ValidateMarketProfiles
    \/ CreateValidationVisualizations
    \/ GenerateValidationReport
    \/ CopyKeyFiles
    \/ LoadValidatedProfiles
    \/ ExitNoValidatedProfiles
    \/ GenerateExecutiveSummary
    \/ GenerateFinalReport
    \/ CreateStructuredPrompts
    \/ RunAgain

MainSpec == MainInit /\ [][MainNext]_vars

---------------------------------------------------------------------------
(* Properties of the scoring engine *)

Underserved == underserved_markets(combined_data)
Mentions == market_mentions(combined_data)

Returned(script) == stage = script /\ pc = "returned"

\* the market names of the input records, underserved records first
InputNames ==
    [i \in 1..(Len(Underserved) + Len(Mentions)) |->
        IF i <= Len(Underserved) THEN Get(Underserved[i], "market", "")
        ELSE Get(Mentions[i - Len(Underserved)], "market", "")]

\* the position of the first input record that names the market
FirstSeen(name) ==
    CHOOSE i \in 1..Len(InputNames) :
        /\ InputNames[i] = name
        /\ \A j \in 1..(i - 1) : InputNames[j] # name

\* C1: the returned list is in non-increasing total_score order, and candidates
\* with equal total_score are in the order in which their names were first
\* inserted: underserved records in list order, then the names first seen in
\* the mention records.
C1_RankedStable ==
    Returned("synthesize") =>
        /\ \A i \in 1..(Len(market_list) - 1) :
              market_list[i].total_score >= market_list[i + 1].total_score
        /\ \A i, j \in 1..Len(market_list) :
              (i < j /\ market_list[i].total_score = market_list[j].total_score)
                  => FirstSeen(market_list[i].name) < FirstSeen(market_list[j].name)

\* a ranked list of three with a tie, whose order differs from insertion order
C1_Witness ==
    /\ Returned("synthesize")
    /\ Len(market_list) = 3
    /\ \E i \in 1..2 : market_list[i].total_score = market_list[i + 1].total_score
    /\ market_list[1].total_score > market_list[3].total_score
    /\ market_list # market_scores

---------------------------------------------------------------------------
(* The scores as the specification states them, for the total_score claims *)

StatedGrowthBonus(growth_potential) ==
    IF growth_potential = "High" THEN 3 * Unit
    ELSE IF growth_potential = "Medium" THEN (3 * Unit) \div 2
    ELSE 0

StatedMentionScore(mention_count) ==
    IF mention_count >= 30 THEN 10 * Unit ELSE (mention_count * Unit) \div 3

StatedSentimentScore(sentiment) ==
    IF sentiment >= Unit THEN 5 * Unit ELSE 5 * sentiment

RECURSIVE SumTo(_, _)
SumTo(seq, n) == IF n = 0 THEN 0 ELSE seq[n] + SumTo(seq, n - 1)

Sum(seq) == SumTo(seq, Len(seq))

\* the sum of the six component fields stored on a candidate
SixComponents(c) ==
    c.gap_score + c.mention_score + c.sentiment_score
        + c.growth_alignment + c.tech_alignment + c.sector_alignment

\* +1 for each hot investment area that shares a word with the name
InvestmentBonus(c) ==
    Num(MatchCount(hot_investment_areas(combined_data), LowerWords(c.name)))

\* C2: for every returned candidate, for any input lists, also with a market
\* name in several records, total_score = the six stored components + the
\* growth-potential bonus of the stored growth_potential + 1 per matching
\* investment area.
C2_TotalIsSumOfStored ==
    Returned("synthesize") =>
        \A i \in 1..Len(market_list) :
            market_list[i].total_score =
                SixComponents(market_list[i])
                    + StatedGrowthBonus(market_list[i].growth_potential)
                    + InvestmentBonus(market_list[i])

MentionsDone == stage = "synthesize" /\ pc \in {"mentions_scored", "aligned", "returned"}
AlignmentDone == stage = "synthesize" /\ pc \in {"aligned", "returned"}
PassDone == stage = "synthesize" /\ pc # "start"

\* what the underserved records before the last one of that name added
EarlierUnderserved(name) ==
    Sum([i \in 1..Len(Underserved) |->
            IF /\ Get(Underserved[i], "market", "") = name
               /\ \E j \in (i + 1)..Len(Underserved) : Get(Underserved[j], "market", "") = name
            THEN Get(Underserved[i], "gap_score", 0)
                    + StatedGrowthBonus(Get(Underserved[i], "growth_potential", ""))
            ELSE 0])

\* what the mention records before the last one of that name added
EarlierMentions(name) ==
    Sum([i \in 1..Len(Mentions) |->
            IF /\ Get(Mentions[i], "market", "") = name
               /\ \E j \in (i + 1)..Len(Mentions) : Get(Mentions[j], "market", "") = name
            THEN StatedMentionScore(Get(Mentions[i], "mention_count", 0))
                    + StatedSentimentScore(Get(Mentions[i], "sentiment_score", 0))
            ELSE 0])

EndToEndExample ==
    CombinedData(
        << [market |-> "Rural Healthcare Technology", gap_score |-> Tenths(87),
            growth_potential |-> "High", barriers |-> <<"Infrastructure">>] >>,
        << [market |-> "Rural Healthcare Technology", mention_count |-> 12,
            sentiment_score |-> Hundredths(78)] >>,
        [growth_sectors |-> <<>>, hot_investment_areas |-> <<>>],
        [technologies |-> <<>>, top_sectors |-> <<>>])

\* C8: for the end-to-end example the engine returns one candidate with
\* mention_score 4.0, sentiment_score 3.9, the three alignments 0 and
\* total_score 19.6.
C8_EndToEndExample ==
    (Returned("synthesize") /\ combined_data = EndToEndExample) =>
        /\ Len(market_list) = 1
        /\ market_list[1].name = "Rural Healthcare Technology"
        /\ 10 * market_list[1].gap_score = 87 * Unit
        /\ market_list[1].mention_score = 4 * Unit
        /\ 10 * market_list[1].sentiment_score = 39 * Unit
        /\ market_list[1].growth_alignment = 0
        /\ market_list[1].tech_alignment = 0
        /\ market_list[1].sector_alignment = 0
        /\ 10 * market_list[1].total_score = 196 * Unit

C8_Witness ==
    /\ Returned("synthesize")
    /\ combined_data = EndToEndExample
    /\ Len(market_list) = 1

\* the last mention record that names the market
LastMention(name) ==
    Mentions[CHOOSE i \in 1..Len(Mentions) :
                /\ Get(Mentions[i], "market", "") = name
                /\ \A j \in (i + 1)..Len(Mentions) : Get(Mentions[j], "market", "") # name]

Mentioned(name) == \E i \in 1..Len(Mentions) : Get(Mentions[i], "market", "") = name

\* C9: the mention_score stored for a mention record is min(10, count / 3):
\* a third of the count below 30 mentions, exactly 10 from 30 mentions on,
\* never more than 10.
C9_MentionScoreCapped ==
    MentionsDone =>
        \A k \in 1..Len(market_scores) :
            LET c == market_scores[k] IN
            /\ c.mention_score <= 10 * Unit
            /\ Mentioned(c.name) =>
                 LET count == Get(LastMention(c.name), "mention_count", 0) IN
                 /\ count >= 30 => c.mention_score = 10 * Unit
                 /\ count < 30 => 3 * c.mention_score = count * Unit

\* one candidate scored from more than 30 mentions, another from fewer than 30
C9_Witness ==
    /\ MentionsDone
    /\ \E k \in 1..Len(market_scores) :
          /\ Mentioned(market_scores[k].name)
          /\ Get(LastMention(market_scores[k].name), "mention_count", 0) > 30
          /\ market_scores[k].mention_score = 10 * Unit
    /\ \E k \in 1..Len(market_scores) :
          /\ Mentioned(market_scores[k].name)
          /\ Get(LastMention(market_scores[k].name), "mention_count", 0) < 30
          /\ market_scores[k].mention_score < 10 * Unit

---------------------------------------------------------------------------
(* Properties of the validator *)

ProfilesValidated == stage = "validate" /\ pc \in {"validated", "returned"}

\* the positions of the reference keys that equal the name or occur in it
KeysIn(name) ==
    {i \in 1..Len(validation_data) :
        \/ validation_data[i].key = name
        \/ InString(validation_data[i].key, name)}

\* the positions of the reference keys in which the name occurs, without
\* being equal to it
KeysAround(name) ==
    {i \in 1..Len(validation_data) :
        /\ validation_data[i].key # name
        /\ InString(name, validation_data[i].key)}

FirstOf(S) == CHOOSE i \in S : \A j \in S : i <= j

\* the validation fields a profile gets from the reference entry at position i
CopiedFrom(v, i) ==
    /\ v.is_validated = TRUE
    /\ v.validation_score = validation_data[i].data.validation_score
    /\ v.market_size_usd_billions = validation_data[i].data.market_size_usd_billions
    /\ v.cagr_percent = validation_data[i].data.cagr_percent

\* C4: a profile is matched to the first reference entry, in table order, whose
\* key equals its market_name or occurs in it as a substring; it gets
\* is_validated = true and that entry's validation_score, market size and CAGR,
\* later matching keys being ignored.  With the simulated reference table,
\* "Rural Healthcare Technology Solutions" gets the "Rural Healthcare
\* Technology" record, market size 18.5.
C4_FirstMatchWins ==
    ProfilesValidated =>
        \A k \in 1..Len(validated_profiles) :
            LET p == validated_profiles[k] IN
            /\ KeysIn(p.market_name) # {} =>
                 CopiedFrom(p.validation, FirstOf(KeysIn(p.market_name)))
            /\ (/\ p.market_name = "Rural Healthcare Technology Solutions"
                /\ validation_data = SimulatedValidationData) =>
                 /\ p.validation.is_validated = TRUE
                 /\ 10 * p.validation.market_size_usd_billions = 185 * Unit

\* a profile whose name holds two reference keys, and the example profile
C4_Witness ==
    /\ ProfilesValidated
    /\ \E k \in 1..Len(validated_profiles) :
          /\ Cardinality(KeysIn(validated_profiles[k].market_name)) = 2
          /\ validated_profiles[k].validation.is_validated = TRUE
    /\ \E k \in 1..Len(validated_profiles) :
          validated_profiles[k].market_name = "Rural Healthcare Technology Solutions"

\* C5 as stated: a profile whose market name is a substring of exactly one
\* reference key, and equal to none, is validated with that key's record.
C5_NameInsideKeyValidated ==
    ProfilesValidated =>
        \A k \in 1..Len(validated_profiles) :
            LET p == validated_profiles[k] IN
            (Cardinality(KeysAround(p.market_name)) = 1 /\ KeysIn(p.market_name) = {})
                => CopiedFrom(p.validation, FirstOf(KeysAround(p.market_name)))

\* C5 as amended: a profile whose market name contains exactly one reference
\* key (as a substring, or equal to it) is validated with that key's record; a
\* name that is only a substring of reference keys, containing none, is left
\* unvalidated.
C5_KeyInsideNameValidated ==
    ProfilesValidated =>
        \A k \in 1..Len(validated_profiles) :
            LET p == validated_profiles[k] IN
            /\ Cardinality(KeysIn(p.market_name)) = 1 =>
                 CopiedFrom(p.validation, FirstOf(KeysIn(p.market_name)))
            /\ (KeysAround(p.market_name) # {} /\ KeysIn(p.market_name) = {}) =>
                 /\ p.validation.is_validated = FALSE
                 /\ p.validation.validation_score = 0

\* a name holding exactly one key, and a name that lies inside exactly one key
C5_Witness ==
    /\ ProfilesValidated
    /\ \E k \in 1..Len(validated_profiles) :
          /\ Cardinality(KeysIn(validated_profiles[k].market_name)) = 1
          /\ validated_profiles[k].validation.is_validated = TRUE
    /\ \E k \in 1..Len(validated_profiles) :
          /\ Cardinality(KeysAround(validated_profiles[k].market_name)) = 1
          /\ KeysIn(validated_profiles[k].market_name) = {}

\* C6: a profile no reference key matches is output with is_validated = false,
\* validation_score, market size and CAGR 0 and empty supporting_indicators and
\* validation_sources; a profile has is_validated = true only if a key matched.
C6_UnmatchedAllZero ==
    ProfilesValidated =>
        \A k \in 1..Len(validated_profiles) :
            LET p == validated_profiles[k] IN
            /\ KeysIn(p.market_name) = {} =>
                 /\ p.validation.is_validated = FALSE
                 /\ p.validation.validation_score = 0
                 /\ p.validation.market_size_usd_billions = 0
                 /\ p.validation.cagr_percent = 0
                 /\ p.validation.supporting_indicators = <<>>
                 /\ p.validation.validation_sources = <<>>
            /\ p.validation.is_validated = TRUE => KeysIn(p.market_name) # {}

\* an unmatched profile next to a matched one
C6_Witness ==
    /\ ProfilesValidated
    /\ \E k \in 1..Len(validated_profiles) :
          /\ KeysIn(validated_profiles[k].market_name) = {}
          /\ validated_profiles[k].validation.is_validated = FALSE
    /\ \E k \in 1..Len(validated_profiles) :
          validated_profiles[k].validation.is_validated = TRUE

\* C7: the returned list is ordered by (validation_score, opportunity_score)
\* descending, validation_score dominating: of adjacent profiles p, q either
\* p has the greater validation_score, or they are equal and p's
\* opportunity_score is at least q's.
C7_SortedByValidation ==
    Returned("validate") =>
        \A k \in 1..(Len(validated_profiles) - 1) :
            LET p == validated_profiles[k]
                q == validated_profiles[k + 1]
            IN  \/ p.validation.validation_score > q.validation.validation_score
                \/ /\ p.validation.validation_score = q.validation.validation_score
                   /\ p.opportunity_score >= q.opportunity_score

\* three profiles returned in an order the sort had to produce: validation
\* scores differ, two are equal with different opportunity scores, and a
\* profile with the higher opportunity_score stands behind one better validated
C7_Witness ==
    /\ Returned("validate")
    /\ Len(validated_profiles) = 3
    /\ [k \in 1..3 |-> validated_profiles[k].market_name]
          # [k \in 1..3 |-> profiles[k].market_name]
    /\ \E k \in 1..2 :
          /\ validated_profiles[k].validation.validation_score
                = validated_profiles[k + 1].validation.validation_score
          /\ validated_profiles[k].opportunity_score
                > validated_profiles[k + 1].opportunity_score
    /\ \E k \in 1..2 :
          /\ validated_profiles[k].validation.validation_score
                > validated_profiles[k + 1].validation.validation_score
          /\ validated_profiles[k].opportunity_score
                < validated_profiles[k + 1].opportunity_score

---------------------------------------------------------------------------
(* Error handling of the scoring engine *)

\* a required input is structurally absent: combined_data is empty, or one of
\* the two record sections is not a list of records
StructurallyAbsent ==
    \/ combined_data = EmptyDict
    \/ ~AllDicts(Underserved)
    \/ ~AllDicts(Mentions)

\* C12: when a required input is structurally absent (combined_data empty, or
\* underserved_markets.markets or market_mentions.market_mentions not a list of
\* records), identify_top_underserved_markets does not raise and its ranked
\* list stays empty.
C12_AbsentInputEmptyResult ==
    (stage = "synthesize" /\ StructurallyAbsent) =>
        (pc # "raised" /\ market_list = <<>>)

\* C13: on combined data whose records lack optional fields, whose technology
\* entries lack 'technology' or which lacks whole sections, the scoring engine
\* does not raise.
C13_MissingOptionalNeverRaises ==
    (stage = "synthesize" /\ combined_data \in SparseInputs) => pc # "raised"

---------------------------------------------------------------------------
(* Error handling of the validator *)

\* C11: with the fallback placeholder as reference data, validate_market_profiles
\* does not raise, whatever the market names are, and every profile it outputs
\* has is_validated false.
C11_FallbackNeverRaises ==
    (stage = "validate" /\ validation_data = FallbackValidationData) =>
        /\ pc # "raised"
        /\ \A k \in 1..Len(validated_profiles) :
              ~validated_profiles[k].validation.is_validated

---------------------------------------------------------------------------
(* Alignment scores *)

\* the entry and the market name share a lower-case whitespace-separated word
SharesWord(entry, market_name) ==
    \E i \in 1..Len(LowerWords(entry)), j \in 1..Len(LowerWords(market_name)) :
        LowerWords(entry)[i] = LowerWords(market_name)[j]

\* the number of entries of the list that share a word with the market name
SharingEntries(list, market_name) ==
    Cardinality({i \in 1..Len(list) : SharesWord(list[i], market_name)})

Capped(n) == IF n > 3 THEN 3 * Unit ELSE n * Unit

TechnologyNames ==
    [i \in 1..Len(emerging_tech(combined_data)) |->
        Get(emerging_tech(combined_data)[i], "technology", "")]

\* C20: after the alignment pass each of growth_alignment, tech_alignment and
\* sector_alignment is min(3, number of entries of its list that share a whole
\* lower-case word with the market name), an integer in 0..3, and the capped
\* values are what total_score received.
C20_AlignmentCapped ==
    AlignmentDone =>
        \A k \in 1..Len(market_scores) :
            LET c == market_scores[k]
                growth == SharingEntries(growth_sectors(combined_data), c.name)
                tech == SharingEntries(TechnologyNames, c.name)
                sector == SharingEntries(trending_sectors(combined_data), c.name)
                invest == SharingEntries(hot_investment_areas(combined_data), c.name)
            IN  /\ c.growth_alignment = Capped(growth)
                /\ c.tech_alignment = Capped(tech)
                /\ c.sector_alignment = Capped(sector)
                /\ {c.growth_alignment, c.tech_alignment, c.sector_alignment}
                      \subseteq {0, Unit, 2 * Unit, 3 * Unit}
                /\ c.total_score =
                      c.gap_score + c.mention_score + c.sentiment_score
                        + StatedGrowthBonus(c.growth_potential)
                        + EarlierUnderserved(c.name) + EarlierMentions(c.name)
                        + Capped(growth) + Capped(tech) + Capped(sector)
                        + invest * Unit

\* a candidate with four matching entries in each list, capped at 3, although
\* the lists also hold "Tech", a part of its word "technology", and entries
\* that match only when case is ignored
C20_Witness ==
    /\ AlignmentDone
    /\ combined_data \in RichInputs
    /\ \E k \in 1..Len(market_scores) :
          LET c == market_scores[k] IN
          /\ c.name = "Rural Healthcare Technology"
          /\ SharingEntries(growth_sectors(combined_data), c.name) = 4
          /\ SharingEntries(TechnologyNames, c.name) = 4
          /\ SharingEntries(trending_sectors(combined_data), c.name) = 4
          /\ c.growth_alignment = 3 * Unit
          /\ c.tech_alignment = 3 * Unit
          /\ c.sector_alignment = 3 * Unit
    /\ \E k \in 1..Len(market_scores) :
          /\ market_scores[k].tech_alignment = Unit
          /\ market_scores[k].growth_alignment = 2 * Unit

---------------------------------------------------------------------------
(* Properties of the profile enricher *)

\* create_market_opportunity_profiles has built its profiles
Enriched ==
    /\ stage = "enrich" /\ pc = "returned"
    /\ market_list # <<>> /\ combined_data # EmptyDict

\* C17: the enricher produces one profile for each of the first 10 candidates
\* of the ranked list, in the same order, at most 10; opportunity_score is the
\* candidate's total_score; gap_score, growth_potential, barriers and sources
\* are copied unchanged; the ranked list itself is never modified.
C17_TopTenCopied ==
    /\ [](Enriched =>
            /\ Len(market_profiles) <= 10
            /\ Len(market_profiles) =
                  IF Len(market_list) > 10 THEN 10 ELSE Len(market_list)
            /\ \A k \in 1..Len(market_profiles) :
                  /\ market_profiles[k].market_name = market_list[k].name
                  /\ market_profiles[k].opportunity_score = market_list[k].total_score
                  /\ market_profiles[k].gap_score = market_list[k].gap_score
                  /\ market_profiles[k].growth_potential
                        = market_list[k].growth_potential
                  /\ market_profiles[k].barriers_to_entry = market_list[k].barriers
                  /\ market_profiles[k].data_sources = market_list[k].sources)
    /\ [][stage = "enrich" => market_list' = market_list]_vars

\* eleven candidates in, ten profiles out, the tenth made from the tenth
C17_Witness ==
    /\ Enriched
    /\ Len(market_list) = 11
    /\ Len(market_profiles) = 10
    /\ market_profiles[10].market_name = market_list[10].name
    /\ market_profiles[10].opportunity_score = market_list[10].total_score
    /\ market_list[10].total_score > 0

\* the technology entry is among the profile's related technologies
Attached(profile, tech) ==
    \E j \in 1..Len(profile.related_technologies) :
        profile.related_technologies[j].name = Get(tech, "technology", "")

\* C18: a technology entry is attached to a profile exactly when its name,
\* split into lower-case words, shares a whole word with the lower-case words
\* of the market name.
C18_TechnologyByWholeWord ==
    Enriched =>
        \A k \in 1..Len(market_profiles) :
            \A i \in 1..Len(emerging_tech(combined_data)) :
                Attached(market_profiles[k], emerging_tech(combined_data)[i])
                    <=> SharesWord(Get(emerging_tech(combined_data)[i], "technology", ""),
                                   market_profiles[k].market_name)

\* the tags of a rule whose keywords are given, if one occurs in the name
TagsIf(lower_name, keywords, tags) ==
    IF \E k \in keywords : InString(k, lower_name) THEN tags ELSE <<>>

StatedDemographics(lower_name) ==
    TagsIf(lower_name, {"elderly", "senior", "aging"},
           <<"Seniors (65+)", "Adult children of seniors", "Healthcare providers">>)
    \o TagsIf(lower_name, {"rural"},
           <<"Rural communities", "Small town residents", "Agricultural sector">>)
    \o TagsIf(lower_name, {"health", "wellness", "care"},
           <<"Health-conscious consumers", "Healthcare providers",
             "Insurance companies">>)
    \o TagsIf(lower_name, {"education", "learning", "training"},
           <<"Students", "Working professionals", "Educational institutions">>)
    \o TagsIf(lower_name, {"housing", "home"},
           <<"First-time homebuyers", "Middle-income families",
             "Real estate developers">>)
    \o TagsIf(lower_name, {"childcare"},
           <<"Working parents", "Single-parent households",
             "Employers with parent employees">>)

StatedBusinessModels(lower_name) ==
    TagsIf(lower_name, {"technology", "tech"},
           <<"SaaS subscription model", "Hardware + software solution",
             "B2B enterprise sales">>)
    \o TagsIf(lower_name, {"healthcare", "health"},
           <<"Telehealth platform", "Insurance partnerships",
             "Direct-to-consumer health services">>)
    \o TagsIf(lower_name, {"education", "learning"},
           <<"Freemium learning platform", "B2B institutional sales",
             "Certification programs">>)
    \o TagsIf(lower_name, {"sustainable", "packaging"},
           <<"B2B supplier model", "Circular economy approach",
             "Subscription refill service">>)
    \o TagsIf(lower_name, {"rural"},
           <<"Hub and spoke distribution", "Mobile service delivery",
             "Community partnership model">>)

\* C19: target_demographics is the concatenation, in rule order, of the tag
\* lists of every rule one of whose keywords occurs in the lower-cased market
\* name, duplicates kept; business_model_suggestions likewise from its table.
C19_TagsConcatenated ==
    Enriched =>
        \A k \in 1..Len(market_profiles) :
            LET p == market_profiles[k] IN
            /\ p.target_demographics = StatedDemographics(lower(p.market_name))
            /\ p.business_model_suggestions = StatedBusinessModels(lower(p.market_name))

\* a profile that matches the elderly and the health rule and so holds
\* 'Healthcare providers' twice, a childcare profile that also matches the
\* health rule through 'care', and a profile that matches no rule
C19_Witness ==
    /\ Enriched
    /\ \E k \in 1..Len(market_profiles) :
          LET tags == market_profiles[k].target_demographics IN
          /\ market_profiles[k].market_name = "Elderly Healthcare Services"
          /\ Len(tags) = 6
          /\ tags[3] = "Healthcare providers" /\ tags[5] = "Healthcare providers"
    /\ \E k \in 1..Len(market_profiles) :
          /\ market_profiles[k].market_name = "Affordable Childcare Solutions"
          /\ Len(market_profiles[k].target_demographics) = 6
          /\ market_profiles[k].target_demographics[1] = "Health-conscious consumers"
          /\ market_profiles[k].target_demographics[4] = "Working parents"
    /\ \E k \in 1..Len(market_profiles) :
          /\ market_profiles[k].target_demographics = <<>>
          /\ market_profiles[k].business_model_suggestions = <<>>

---------------------------------------------------------------------------
(* Properties of the scripts run from main() *)

\* C14: a stage whose required input file is absent aborts before writing
\* anything: the synthesis stage writes nothing (so none of the ranked list,
\* the barrier analysis, the profiles, the report) when
\* combined_market_analysis.json is missing, and the validation stage writes
\* nothing (so none of the validation data, the validated profiles, the
\* report) when market_opportunity_profiles.json is missing or holds no
\* profile.
C14_AbortBeforeWriting ==
    /\ (stage = "synthesis_main" /\ CombinedFile \notin present) =>
          /\ written = {}
          /\ pc \in {"start", "loaded", "exited"}
    /\ (stage = "validation_main" /\ ProfilesFile \notin present) =>
          /\ written = {}
          /\ pc \in {"start", "loaded", "exited"}
    /\ (stage = "validation_main" /\ pc # "start" /\ profiles = <<>>) =>
          /\ written = {}
          /\ pc \in {"loaded", "exited", "raised"}

\* the validation stage has returned from main on a profiles file that exists
\* and holds an empty list, next to the output files of an earlier run
C14_Witness ==
    /\ stage = "validation_main" /\ pc = "exited"
    /\ {ProfilesFile, ValidatedFile} \subseteq present
    /\ written = {}

\* the synthesis stage has returned from main without its input file
C14_SynthesisAborted ==
    /\ stage = "synthesis_main" /\ pc = "exited"
    /\ CombinedFile \notin present

\* C15: when validated_market_profiles.json is absent or holds no profile, the
\* final-report stage writes nothing into the final_report directory.
C15_NoReportOutputWithoutProfiles ==
    (/\ stage = "report_main"
     /\ \/ ValidatedFile \notin present
        \/ pc \notin {"start", "copied"} /\ validated_profiles = <<>>) =>
        written = {}

\* C16: when neither an economic-indicators file nor a scraped-trends file
\* exists, the aggregation stage does not write combined_market_analysis.json.
C16_NoCombinedFileWithoutInputs ==
    (stage = "aggregation_main" /\ EconomicFile \notin present
                                /\ TrendsFile \notin present) =>
        CombinedFile \notin written

---------------------------------------------------------------------------
(* Further properties of the scoring engine *)

\* the fields of a candidate
CandidateFields ==
    {"name", "total_score", "gap_score", "mention_score", "sentiment_score",
     "growth_alignment", "tech_alignment", "sector_alignment", "barriers",
     "growth_potential", "sources"}

\* C21: the alignment pass adds to total_score of every candidate the three
\* capped alignments and exactly 1 for each hot-investment-area entry that
\* shares a word with the market name, without a cap (k matching areas add k,
\* also for k > 3); the pass changes no field other than total_score and the
\* three alignment fields, and adds none, so no field records the bonus.
C21_InvestmentUncapped ==
    [][ (stage = "synthesize" /\ pc = "mentions_scored") =>
          /\ Len(market_scores') = Len(market_scores)
          /\ \A k \in 1..Len(market_scores) :
                LET before == market_scores[k]
                    after == market_scores'[k]
                    invest == SharingEntries(hot_investment_areas(combined_data),
                                             before.name)
                IN  /\ after.total_score =
                          before.total_score + after.growth_alignment
                            + after.tech_alignment + after.sector_alignment
                            + invest * Unit
                    /\ DOMAIN after = CandidateFields
                    /\ \A f \in CandidateFields \ {"total_score", "growth_alignment",
                                                   "tech_alignment", "sector_alignment"} :
                          after[f] = before[f]
                    /\ after.growth_alignment =
                          Capped(SharingEntries(growth_sectors(combined_data),
                                                before.name)) ]_vars

\* after the alignment pass: a candidate with five matching investment areas
\* and one matching growth sector, whose stored components and growth bonus
\* fall five short of its total_score
C21_Witness ==
    /\ AlignmentDone
    /\ combined_data \in InvestmentInputs
    /\ \E k \in 1..Len(market_scores) :
          LET c == market_scores[k] IN
          /\ SharingEntries(hot_investment_areas(combined_data), c.name) = 5
          /\ c.growth_alignment = Unit
          /\ c.total_score = SixComponents(c) + StatedGrowthBonus(c.growth_potential)
                                + 5 * Unit

\* what the underserved records of that name add: gap_score and the bonus
UnderservedTotal(name) ==
    Sum([i \in 1..Len(Underserved) |->
            IF Get(Underserved[i], "market", "") = name
            THEN Get(Underserved[i], "gap_score", 0)
                    + (IF "growth_potential" \notin DOMAIN Underserved[i] THEN 0
                       ELSE IF Underserved[i].growth_potential = "High" THEN 3 * Unit
                       ELSE IF Underserved[i].growth_potential = "Medium"
                            THEN (3 * Unit) \div 2
                       ELSE 0)
            ELSE 0])

\* the growth_potential of the last underserved record of that name
LastGrowthPotential(name) ==
    LET last == CHOOSE i \in 1..Len(Underserved) :
                    /\ Get(Underserved[i], "market", "") = name
                    /\ \A j \in (i + 1)..Len(Underserved) :
                          Get(Underserved[j], "market", "") # name
    IN  Get(Underserved[last], "growth_potential", "")

\* C22: every underserved record processed adds to total_score its gap_score
\* and 3 when its growth_potential is exactly 'High', 1.5 when it is exactly
\* 'Medium', 0 for 'Low', a missing value or any other string; the bonus has
\* no field of its own: the candidate keeps the string, and its other score
\* fields are still 0 after the pass.
C22_GrowthPotentialBonus ==
    (stage = "synthesize" /\ pc = "underserved_scored") =>
        \A k \in 1..Len(market_scores) :
            LET c == market_scores[k] IN
            /\ c.total_score = UnderservedTotal(c.name)
            /\ DOMAIN c = CandidateFields
            /\ c.growth_potential = LastGrowthPotential(c.name)
            /\ c.mention_score = 0 /\ c.sentiment_score = 0
            /\ c.growth_alignment = 0 /\ c.tech_alignment = 0
            /\ c.sector_alignment = 0

\* after the pass: a candidate scored from a 'Medium' record and then a 'high'
\* one (8.7 + 1.5 + 7.9 + 0), next to one whose record has no growth_potential
C22_Witness ==
    /\ stage = "synthesize" /\ pc = "underserved_scored"
    /\ combined_data \in GrowthPotentialInputs
    /\ \E k \in 1..Len(market_scores) :
          /\ market_scores[k].growth_potential = "high"
          /\ 10 * market_scores[k].total_score = 181 * Unit

\* C23: the sources field of every candidate holds no source tag more than
\* once, also when the market name occurs in several records of one list.
C23_SourcesNoDuplicates ==
    PassDone =>
        \A k \in 1..Len(market_scores) :
            \A i, j \in 1..Len(market_scores[k].sources) :
                market_scores[k].sources[i] = market_scores[k].sources[j] => i = j

---------------------------------------------------------------------------
(* Properties of the output files *)

\* the JSON output files of the synthesis stage and of the validation stage
JsonOutputs == {RankedFile, ProfilesFile, ValidatedFile}

Ended == pc \in {"done", "exited", "raised"}

\* C24: a stage run is idempotent on its JSON output files: when the synthesis
\* stage or the validation stage has run twice in sequence on unchanged input
\* (the same input file, the same surroundings), ranked_underserved_markets.json,
\* market_opportunity_profiles.json and validated_market_profiles.json exist
\* or not, and hold, exactly what they did after the first run; the second
\* run ends as the first did.
C24_RerunLeavesJsonOutputs ==
    (first_run # <<>> /\ Ended) =>
        /\ pc = first_run[1].pc
        /\ \A f \in JsonOutputs :
              /\ f \in DOMAIN files <=> f \in DOMAIN first_run[1].files
              /\ f \in DOMAIN files => files[f] = first_run[1].files[f]

\* the synthesis stage has run twice to its end where an earlier run had left
\* a ranked list and profiles: both runs replaced them by their own lists
C24_Witness ==
    /\ stage = "synthesis_main" /\ pc = "done" /\ first_run # <<>>
    /\ {RankedFile, ProfilesFile} \subseteq DOMAIN first_run[1].files
    /\ Len(market_list) = 2
    /\ files[RankedFile] = Json(market_list)
    /\ files[RankedFile] # Json(EarlierRanked)
    /\ files[ProfilesFile] = Json(market_profiles)
    /\ {RankedFile, ProfilesFile} \subseteq written

\* the validation stage has run twice to its end
C24_ValidationRerun ==
    /\ stage = "validation_main" /\ pc = "done" /\ first_run # <<>>
    /\ files[ValidatedFile] = Json(validated_profiles)
    /\ Len(validated_profiles) = 2

---------------------------------------------------------------------------
(* Failures local to a stage *)

\* C25: no stage invokes or re-runs another stage, and a stage that has
\* returned early on missing input has left every file that existed when it
\* started as it was and has created none, so that the next stage reads the
\* output of an earlier run if there is one and returns early itself if not.
C25_AbortLeavesFilesUnchanged ==
    pc = "exited" =>
        /\ written = {}
        /\ DOMAIN files = present
        /\ Final(MarketsReport) \in present =>
              files[Final(MarketsReport)] = OnDisk

---------------------------------------------------------------------------
(* Concurrent runs on one path: two runs of analyze_economic_data.main that
   save combined_market_analysis.json while load_combined_analysis of the
   synthesis stage reads it. The text of a file is a sequence of parts, one
   part per write the buffered file object passes to the operating system. *)

MaxParts == 2

Writers == {"first writer", "second writer"}

Reader == "reader"

\* part number `part` of the text json.dump produces in run `writer`
Part(writer, part) == [of |-> writer, part |-> part]

\* bytes of a file that no write has filled
Hole == [of |-> "nobody", part |-> 0]

\* the whole text of a run's output
Output(writer, size) == [i \in 1..size |-> Part(writer, i)]

EarlierOutput == Output("an earlier run", 1)

\* f.write at the writer's own position: what lies beyond the written part
\* stays, and a position past the end leaves a hole
WriteAt(text, offset, part) ==
    [i \in 1..(IF Len(text) > offset THEN Len(text) ELSE offset + 1) |->
        IF i = offset + 1 THEN part
        ELSE IF i <= Len(text) THEN text[i]
        ELSE Hole]

InitConcurrent ==
    /\ stage = "concurrent_runs"
    /\ \E sizes \in [Writers -> 1..MaxParts] :
          pc = [p \in Writers \cup {Reader} |->
                   IF p = Reader THEN [at |-> "start", text |-> <<>>]
                   ELSE [at |-> "start", offset |-> 0, size |-> sizes[p]]]
    /\ present \in SUBSET {CombinedFile}
    /\ files = [f \in present |-> EarlierOutput]
    /\ combined_data = EmptyDict
    /\ market_scores = <<>>
    /\ market_list = <<>>
    /\ market_profiles = <<>>
    /\ profiles = <<>>
    /\ validation_data = <<>>
    /\ validated_profiles = <<>>
    /\ written = {}
    /\ first_run = <<>>
    /\ environment = UsualEnvironment

\* Variant with an exclusive lock: open waits while another run has the file
\* open
OpenForWriteLocked(w) ==
    /\ stage = "concurrent_runs"
    /\ pc[w].at = "start"
    /\ \A other \in Writers : pc[other].at # "opened"
    /\ files' = [f \in DOMAIN files \cup {CombinedFile} |->
                    IF f = CombinedFile THEN <<>> ELSE files[f]]
    /\ written' = written \cup {CombinedFile}
    /\ pc' = [pc EXCEPT ![w].at = "opened"]
    /\ UNCHANGED <<stage, present, RunVars, SynthesizeVars, ValidateVars>>

\* open(path, 'w'): the file is created or cut to zero bytes at once
OpenForWrite(w) ==
    /\ stage = "concurrent_runs"
    /\ pc[w].at = "start"
    /\ files' = [f \in DOMAIN files \cup {CombinedFile} |->
                    IF f = CombinedFile THEN <<>> ELSE files[f]]
    /\ written' = written \cup {CombinedFile}
    /\ pc' = [pc EXCEPT ![w].at = "opened"]
    /\ UNCHANGED <<stage, present, RunVars, SynthesizeVars, ValidateVars>>

\* json.dump(combined_analysis, f, indent=2): the next part of the text
\* reaches the file
Dump(w) ==
    /\ stage = "concurrent_runs"
    /\ pc[w].at = "opened"
    /\ pc[w].offset < pc[w].size
    /\ files' = [files EXCEPT ![CombinedFile] =
                    WriteAt(@, pc[w].offset, Part(w, pc[w].offset + 1))]
    /\ pc' = [pc EXCEPT ![w].offset = @ + 1]
    /\ UNCHANGED <<stage, present, RunVars, SynthesizeVars, ValidateVars,
                   written>>

\* the end of the with block
Close(w) ==
    /\ stage = "concurrent_runs"
    /\ pc[w].at = "opened"
    /\ pc[w].offset = pc[w].size
    /\ pc' = [pc EXCEPT ![w].at = "closed"]
    /\ UNCHANGED <<stage, present, RunVars, SynthesizeVars, ValidateVars,
                   written, files>>

\* if not os.path.exists(combined_file): return None
CheckExists ==
    /\ stage = "concurrent_runs"
    /\ pc[Reader].at = "start"
    /\ pc' = [pc EXCEPT ![Reader].at =
                 IF CombinedFile \in DOMAIN files THEN "checked"
                 ELSE "returned"]
    /\ UNCHANGED <<stage, present, RunVars, SynthesizeVars, ValidateVars,
                   written, files>>

\* the text is the whole output of one run
Complete(text) ==
    \/ text = EarlierOutput
    \/ \E w \in Writers : text = Output(w, pc[w].size)

\* json.load(f) reads what the file holds at that moment and raises unless
\* it is a whole JSON text
ReadFile ==
    /\ stage = "concurrent_runs"
    /\ pc[Reader].at = "checked"
    /\ pc' = [pc EXCEPT ![Reader] =
                 [at |-> IF Complete(files[CombinedFile]) THEN "loaded"
                         ELSE "raised",
                  text |-> files[CombinedFile]]]
    /\ UNCHANGED <<stage, present, RunVars, SynthesizeVars, ValidateVars,
                   written, files>>

ConcurrentNext ==
    \/ \E w \in Writers : OpenForWrite(w)
    \/ \E w \in Writers : Dump(w)
    \/ \E w \in Writers : Close(w)
    \/ CheckExists
    \/ ReadFile

ConcurrentSpec == InitConcurrent /\ [][ConcurrentNext]_vars

\* C26: nothing makes a run wait for another (no lock) and a writer's open
\* empties the file in place (no atomic replace): a writer that has not
\* opened the file can always open it, a reader that found the file can
\* always read it, and while a writer has opened the file and no part has
\* been written since, the file holds zero bytes; so a reader can read a
\* truncated or partial file and two writers can leave a file that is the
\* whole output of neither.
C26_NoLockNoAtomicReplace ==
    stage = "concurrent_runs" =>
        /\ \A w \in Writers : pc[w].at = "start" => ENABLED OpenForWrite(w)
        /\ pc[Reader].at = "checked" => ENABLED ReadFile
        /\ (/\ \E w \in Writers : pc[w].at = "opened"
            /\ \A w \in Writers : pc[w].offset = 0) =>
              files[CombinedFile] = <<>>

\* both writers have closed the file, which is the whole output of neither,
\* and the reader's json.load has raised on a truncated or partial text
C26_Witness ==
    /\ stage = "concurrent_runs"
    /\ \A w \in Writers : pc[w].at = "closed"
    /\ ~Complete(files[CombinedFile])
    /\ pc[Reader].at = "raised"
    /\ ~Complete(pc[Reader].text)

\* the reader has read a file of zero bytes
C26_TruncatedRead ==
    /\ stage = "concurrent_runs"
    /\ pc[Reader].at = "raised"
    /\ pc[Reader].text = <<>>

\* the reader has read part of a writer's output
C26_PartialRead ==
    /\ stage = "concurrent_runs"
    /\ pc[Reader].at = "raised"
    /\ \E w \in Writers :
          /\ pc[Reader].text = Output(w, 1)
          /\ pc[w].size > 1

---------------------------------------------------------------------------
(* The candidates of the ranked list *)

\* the non-empty market names of a list of records
MarketNames(records) ==
    {Get(records[i], "market", "") : i \in 1..Len(records)} \ {""}

RecordNames ==
    MarketNames(underserved_markets(combined_data))
        \cup MarketNames(market_mentions(combined_data))

\* C27: the list identify_top_underserved_markets returns holds exactly one
\* candidate for each distinct non-empty market name of the underserved
\* records and the mention records, and no other; from the end of the
\* mentions pass on the score map holds exactly these candidates.
C27_OneCandidatePerName ==
    /\ MentionsDone =>
          /\ {market_scores[k].name : k \in 1..Len(market_scores)} = RecordNames
          /\ Len(market_scores) = Cardinality(RecordNames)
    /\ (stage = "synthesize" /\ pc = "returned") =>
          /\ {market_list[k].name : k \in 1..Len(market_list)} = RecordNames
          /\ Len(market_list) = Cardinality(RecordNames)

\* the list is returned for records of which one has no market name, and two
\* name the same market
C27_Witness ==
    /\ stage = "synthesize" /\ pc = "returned"
    /\ Len(market_list) >= 1
    /\ LET records == underserved_markets(combined_data)
                          \o market_mentions(combined_data)
       IN  /\ \E i \in 1..Len(records) : Get(records[i], "market", "") = ""
           /\ \E i, j \in 1..Len(records) :
                 /\ i # j
                 /\ Get(records[i], "market", "") = Get(records[j], "market", "")
                 /\ Get(records[i], "market", "") # ""

---------------------------------------------------------------------------
(* validate_market_profiles and its argument *)

\* the output profile is the input profile with a 'validation' field added
WithValidationAdded(input, output) ==
    /\ DOMAIN output = DOMAIN input \cup {"validation"}
    /\ \A f \in DOMAIN input : output[f] = input[f]

\* C28: the list validate_market_profiles returns is a permutation of its
\* argument in which every profile keeps its fields and has a 'validation'
\* field added, and the call leaves its argument as it was: the same
\* profiles in the same order, none with a 'validation' field.
C28_PermutationOfUnmodifiedInput ==
    /\ [](Returned("validate") =>
            /\ Len(validated_profiles) = Len(profiles)
            /\ \E at \in [1..Len(profiles) -> 1..Len(profiles)] :
                  /\ \A i, j \in 1..Len(profiles) : at[i] = at[j] => i = j
                  /\ \A i \in 1..Len(profiles) :
                        WithValidationAdded(profiles[i], validated_profiles[at[i]]))
    /\ [][stage = "validate" => profiles' = profiles]_vars

\* three profiles, of which the sort has moved one, have been returned
C28_Witness ==
    /\ Returned("validate")
    /\ Len(profiles) = 3
    /\ \E i \in 1..3 : ~WithValidationAdded(profiles[i], validated_profiles[i])
    /\ \A i \in 1..3 : "validation" \notin DOMAIN profiles[i]

---------------------------------------------------------------------------
(* The numbering of the validation report *)

\* every validated profile precedes every profile that is not validated
ValidatedFirst(list) ==
    \A i, j \in 1..Len(list) :
        (IsValidated(list[i]) /\ ~IsValidated(list[j])) => i < j

\* the numbers are 1..k
Consecutive(numbers) == numbers = 1..Cardinality(numbers)

\* C29: the headings of the validation report carry the positions of the
\* validated profiles in the whole list, so they are 1..k without a gap
\* exactly when every validated profile precedes every unvalidated one; in
\* the sorted list validate_market_profiles returns this is the case when
\* every validated profile has a positive validation_score.
C29_ReportNumbering ==
    (stage = "validate" /\ pc \in {"validated", "returned"}) =>
        /\ Consecutive(HeadingNumbers(validated_profiles))
              <=> ValidatedFirst(validated_profiles)
        /\ (/\ pc = "returned"
            /\ \A i \in 1..Len(validated_profiles) :
                  IsValidated(validated_profiles[i]) =>
                      validated_profiles[i].validation.validation_score > 0) =>
              Consecutive(HeadingNumbers(validated_profiles))

\* the sorted list holds validated profiles and, after them, one that is
\* not validated, and was not in this order before the sort
C29_Witness ==
    /\ Returned("validate")
    /\ Cardinality(HeadingNumbers(validated_profiles)) >= 2
    /\ Len(validated_profiles) > Cardinality(HeadingNumbers(validated_profiles))
    /\ ~ValidatedFirst(ValidateAll(profiles, validation_data))

\* before the sort a validated profile follows one that is not validated:
\* numbered at this point the headings would skip a number
C29_GapWithoutSort ==
    /\ stage = "validate" /\ pc = "validated"
    /\ ~Consecutive(HeadingNumbers(validated_profiles))

---------------------------------------------------------------------------
(* The parts of the final report *)

ReportParts == {ExecutiveSummary, Final(MarketsReport), Final(ValidationReport)}

\* generate_final_report has returned
FinalReportStepDone == stage = "report_main" /\ pc \in {"reported", "done"}

\* C30 as stated: final_report.md is written only if the three parts exist in
\* the final_report directory, the two reports there only because
\* copy_key_files found them in the results directory; with a part missing
\* final_report.md is not written, while executive_summary.md has been
\* written and structured_prompts.json is written afterwards.
C30_WrittenOnlyFromCopiedParts ==
    /\ (stage = "report_main" /\ FinalReport \in written) =>
          /\ ReportParts \subseteq DOMAIN files
          /\ {MarketsReport, ValidationReport} \subseteq present
    /\ (FinalReportStepDone /\ ~(ReportParts \subseteq DOMAIN files)) =>
          /\ FinalReport \notin written
          /\ ExecutiveSummary \in written
    /\ (stage = "report_main" /\ pc = "done") => StructuredPrompts \in written

\* C30, amended: final_report.md is written only if the three parts exist in
\* the final_report directory, where each of the two reports exists exactly
\* when copy_key_files found it in the results directory or a copy was left
\* there by an earlier run; with a part missing final_report.md is not
\* written, while executive_summary.md has been written and
\* structured_prompts.json is written afterwards.
C30_WrittenOnlyWithParts ==
    /\ (stage = "report_main" /\ FinalReport \in written) =>
          ReportParts \subseteq DOMAIN files
    /\ (stage = "report_main" /\ pc # "start") =>
          \A report \in {MarketsReport, ValidationReport} :
              Final(report) \in DOMAIN files
                  <=> (report \in present \/ Final(report) \in present)
    /\ (FinalReportStepDone /\ ~(ReportParts \subseteq DOMAIN files)) =>
          /\ FinalReport \notin written
          /\ ExecutiveSummary \in written
    /\ (stage = "report_main" /\ pc = "done") => StructuredPrompts \in written

\* main has returned without final_report.md for want of the validation
\* report, having written the summary and the prompts
C30_Witness ==
    /\ stage = "report_main" /\ pc = "done"
    /\ Final(ValidationReport) \notin DOMAIN files
    /\ FinalReport \notin written
    /\ {ExecutiveSummary, StructuredPrompts} \subseteq written

\* final_report.md has been written from a copy of the markets report that
\* an earlier run left in the final_report directory
C30_WrittenFromEarlierCopy ==
    /\ stage = "report_main" /\ pc = "done"
    /\ FinalReport \in written
    /\ MarketsReport \notin present

=============================================================================
